---- MODULE Spec2Model ----
(***************************************************************************)
(* A model of qm.test.execution_engine.ExecutionEngine: the scheduler that *)
(* builds the prerequisite graph of the requested tests, hands ready tests *)
(* to idle targets, and processes the results the targets put on the       *)
(* shared response queue.  The engine thread is one process (variable pc); *)
(* the worker threads of the asynchronous targets are the other processes. *)
(***************************************************************************)
EXTENDS Integers, Sequences, FiniteSets, TLC

(***************************************************************************)
(* Bounds of the model.                                                    *)
(***************************************************************************)
MaxTests == 3
MaxEdges == 2
MaxThreads == 2
MaxResourceCommands == 1
MaxEdgesRemote == 1
MaxWireCommands == 3

Ids == 1..MaxTests

(***************************************************************************)
(* Result.PASS, FAIL, ERROR, UNTESTED and the kinds of result.             *)
(***************************************************************************)
PASS == "PASS"
FAIL == "FAIL"
ERROR == "ERROR"
UNTESTED == "UNTESTED"
Outcomes == {PASS, FAIL, ERROR, UNTESTED}
ImplOutcomes == {PASS, FAIL}

TEST == "TEST"
RESOURCE == "RESOURCE"

\* The causes the engine writes into the results it synthesizes.
CauseNone == "none"
CauseCycle == "dependency cycle"
CausePrereq == "failed prerequisite"
CauseTerminated == "execution terminated"
CauseLoad == "could not load test"
CauseException == "exception"

(***************************************************************************)
(* Sequence helpers: Python's list membership and list.remove (the first   *)
(* occurrence is removed).                                                 *)
(***************************************************************************)
InSeq(x, s) == \E i \in 1..Len(s) : s[i] = x

IndexOf(x, s) == CHOOSE i \in 1..Len(s) : s[i] = x /\ \A j \in 1..(i-1) : s[j] # x

Min(S) == CHOOSE x \in S : \A y \in S : x <= y

\* list.remove(x); the callers handle the ValueError of an absent x, so
\* for an absent x the list is returned as it is.
Remove(s, x) ==
    IF ~InSeq(x, s) THEN s
    ELSE LET k == IndexOf(x, s)
         IN  [i \in 1..(Len(s)-1) |-> IF i < k THEN s[i] ELSE s[i+1]]

(***************************************************************************)
(* The targets of a run.  A serial target runs a test inside RunTest; a    *)
(* thread target has `threads' worker threads; an rsh target forwards      *)
(* every command to one RSHThread.                                         *)
(***************************************************************************)
SerialTarget == [kind |-> "serial", threads |-> 1, group |-> "g"]
ThreadTarget(k) == [kind |-> "thread", threads |-> k, group |-> "g"]
RSHTarget == [kind |-> "rsh", threads |-> 1, group |-> "g"]

\* A thread target that serves the group "h" instead.
OtherGroupTarget == [kind |-> "thread", threads |-> 1, group |-> "h"]

TargetLists ==
    { <<SerialTarget>>, <<RSHTarget>>, <<ThreadTarget(1), ThreadTarget(1)>>,
      <<ThreadTarget(1), OtherGroupTarget>> }
    \cup { <<ThreadTarget(k)>> : k \in 2..MaxThreads }

VARIABLES
    test_ids,          \* the ids handed to __init__, in order
    prereqs,           \* descriptor.GetPrerequisites() of every test
    impl,              \* the outcome the test's own Run produces
    loads,             \* whether database.GetTest(id) returns a descriptor
    target_group,      \* descriptor.GetTargetGroup() of every test
    targets,           \* the targets handed to __init__, in order
    pc,                \* the engine thread's position in Run
    wait,              \* _RunTests' local `wait'
    cur,               \* the target the last RunTest went to
    terminated,        \* __terminated
    idle_targets,      \* __idle_targets
    response_queue,    \* __response_queue
    pending,           \* __pending
    ready,             \* __ready
    descriptor_graph,  \* __descriptor_graph: id -> [count, deps]
    test_results,      \* __test_results
    stream,            \* the WriteResult calls the first result stream has seen
    stream2,           \* the WriteResult calls the second result stream has seen
    summarized,        \* per result stream: the number of Summarize calls
    dispatched,        \* the RunTest calls made: <<id, target>>
    commands,          \* per target: the commands not yet carried out,
                       \* as <<name, id>>
    target_idle,       \* RSHTarget.__idle
    rsh_pc,            \* per target: position of its RSHThread
    child_alive,       \* per target: the child and its pipes still work
    started,           \* number of Start calls per target
    stopped,           \* number of Stop calls per target
    evictions,         \* cycle evictions: what was in flight at that time
    wire_cmds,         \* RSHThread: the commands it has yet to forward
    thread_pc,         \* RSHThread: its position
    stop_pc,           \* RSHTarget.Stop: its position
    to_child,          \* the command pipe: messages written and not yet read
    to_parent,         \* the response pipe: replies written and not yet read
    write_open,        \* RSHThread.__write_file is open
    read_open,         \* RSHThread.__read_file is open
    child_pc,          \* the child (__ExecuteRemote): its position
    child_cmd,         \* the child: the command it is carrying out
    child_queue,       \* the child: its own response_queue
    child_log,         \* the child: what it did for each command it read
    child_stops,       \* the child: calls of Stop on its serial target
    parent_entries     \* what the thread has put on the engine's response queue

cfgvars == <<test_ids, prereqs, impl, loads, target_group, targets>>
engvars == <<pc, wait, cur, idle_targets, pending, ready, descriptor_graph,
             test_results, stream, stream2, summarized, dispatched, started,
             stopped, evictions>>
tgtvars == <<commands, target_idle, rsh_pc, child_alive>>
wirevars == <<wire_cmds, thread_pc, stop_pc, to_child, to_parent, write_open,
              read_open, child_pc, child_cmd, child_queue, child_log,
              child_stops, parent_entries>>
runvars == <<cfgvars, engvars, tgtvars, terminated, response_queue>>
vars == <<runvars, wirevars>>

Targets == 1..Len(targets)

NoResult == [kind |-> "none", id |-> 0, outcome |-> "none", cause |-> CauseNone,
             target |-> 0, prereq |-> 0, actual |-> "none", expected |-> "none",
             action |-> "none"]

\* Result(kind, id, context, outcome, annotations)
Result(kind, id, outcome, cause, target) ==
    [kind |-> kind, id |-> id, outcome |-> outcome, cause |-> cause,
     target |-> target, prereq |-> 0, actual |-> "none", expected |-> "none",
     action |-> "none"]

(***************************************************************************)
(* Target.IsIdle and Target.IsInGroup.                                     *)
(***************************************************************************)
\* A serial target has finished its assignment when RunTest returns.
SerialTargetIsIdle(tg) == TRUE

\* A thread target is idle while fewer assignments are in flight than it
\* has threads.
ThreadTargetIsIdle(tg) == Len(commands[tg]) < targets[tg].threads

\* The target counts as idle only when its thread has nothing to do and
\* has called NoteIdle for the last command.
RSHTargetIdleWhenNoted(tg) == commands[tg] = <<>> /\ rsh_pc[tg] = "idle"

\* RSHTarget.IsIdle returns __idle.
RSHTargetIsIdle(tg) == target_idle[tg]

IsIdle(tg) ==
    CASE targets[tg].kind = "serial" -> SerialTargetIsIdle(tg)
      [] targets[tg].kind = "thread" -> ThreadTargetIsIdle(tg)
      [] targets[tg].kind = "rsh"    -> RSHTargetIsIdle(tg)

IsInGroup(tg, group) == targets[tg].group = group

(***************************************************************************)
(* The part of the engine's state that _AddResult and                      *)
(* _UpdateDependentTests read and write, as one record.                    *)
(***************************************************************************)
EngineState ==
    [idle_targets |-> idle_targets, pending |-> pending, ready |-> ready,
     descriptor_graph |-> descriptor_graph, test_results |-> test_results,
     stream |-> stream, stream2 |-> stream2]

\* The result is written to the first result stream only.
AddResultFirstStreamOnly(g, result) ==
    LET target == result.target
        g1 == IF result.kind = TEST
              THEN [g EXCEPT !.test_results[result.id] = result]
              ELSE g
        g2 == IF target # 0 /\ ~InSeq(target, g1.idle_targets) /\ IsIdle(target)
              THEN [g1 EXCEPT !.idle_targets = Append(@, target)]
              ELSE g1
    IN  [g2 EXCEPT !.stream = Append(@, result)]

\* The target is appended whether or not it is in the idle list already.
AddResultAppendAlways(g, result) ==
    LET target == result.target
        g1 == IF result.kind = TEST
              THEN [g EXCEPT !.test_results[result.id] = result]
              ELSE g
        g2 == IF target # 0 /\ IsIdle(target)
              THEN [g1 EXCEPT !.idle_targets = Append(@, target)]
              ELSE g1
    IN  [g2 EXCEPT !.stream = Append(@, result), !.stream2 = Append(@, result)]

\* ExecutionEngine._AddResult
AddResult(g, result) ==
    LET target == result.target
        g1 == IF result.kind = TEST
              THEN [g EXCEPT !.test_results[result.id] = result]
              ELSE g
        g2 == IF target # 0 /\ ~InSeq(target, g1.idle_targets) /\ IsIdle(target)
              THEN [g1 EXCEPT !.idle_targets = Append(@, target)]
              ELSE g1
    IN  [g2 EXCEPT !.stream = Append(@, result), !.stream2 = Append(@, result)]

\* ExecutionEngine._AddUntestedResult
AddUntestedResult(g, test_name, cause, prereq, actual, expected) ==
    AddResult(g, [Result(TEST, test_name, UNTESTED, cause, 0)
                    EXCEPT !.prereq = prereq, !.actual = actual,
                           !.expected = expected])

(***************************************************************************)
(* ExecutionEngine._UpdateDependentTests: UpdateEdges is its loop over     *)
(* node[1], from the i-th edge on.                                         *)
(***************************************************************************)
RECURSIVE UpdateDependentTests(_, _, _)
RECURSIVE UpdateEdges(_, _, _, _)

\* Every required outcome is taken to be PASS.
OutcomeIsNotPass(outcome, o) == outcome # PASS

\* No outcome is taken to differ from the required one.
OutcomeNeverDiffers(outcome, o) == FALSE

\* Every outcome is taken to differ from the required one.
OutcomeAlwaysDiffers(outcome, o) == TRUE

\* Line 343: the actual outcome is not the one the dependent requires.
OutcomeDiffers(outcome, o) == outcome # o

\* pending.remove(d) is taken to succeed whether or not d is pending.
AssumedPending(g, d) == TRUE

\* Lines 344-361: pending.remove(d) succeeds iff d is still pending.
IsPending(g, d) == InSeq(d, g.pending)

\* The dependent is marked untested, but its own dependents are not
\* looked at.
RECURSIVE UpdateEdgesNoCascade(_, _, _, _)
UpdateEdgesNoCascade(g, descriptor, outcome, i) ==
    IF i > Len(g.descriptor_graph[descriptor].deps) THEN g
    ELSE
      LET d == g.descriptor_graph[descriptor].deps[i][1]
          o == g.descriptor_graph[descriptor].deps[i][2]
          n0 == g.descriptor_graph[d].count
          after ==
            IF n0 = 0 THEN g
            ELSE IF OutcomeDiffers(outcome, o)
            THEN LET z == [g EXCEPT !.descriptor_graph[d].count = 0]
                 IN  IF IsPending(z, d)
                     THEN AddUntestedResult(
                            [z EXCEPT !.pending = Remove(@, d)],
                            d, CausePrereq, descriptor, outcome, o)
                     ELSE z
            ELSE LET m == [g EXCEPT !.descriptor_graph[d].count = n0 - 1]
                 IN  IF n0 - 1 = 0
                     THEN [m EXCEPT !.ready = Append(@, d)]
                     ELSE m
      IN  UpdateEdgesNoCascade(after, descriptor, outcome, i + 1)

UpdateEdges(g, descriptor, outcome, i) ==
    IF i > Len(g.descriptor_graph[descriptor].deps) THEN g
    ELSE
      LET d == g.descriptor_graph[descriptor].deps[i][1]
          o == g.descriptor_graph[descriptor].deps[i][2]
          n0 == g.descriptor_graph[d].count
          after ==
            IF n0 = 0 THEN g
            ELSE IF OutcomeDiffers(outcome, o)
            THEN LET z == [g EXCEPT !.descriptor_graph[d].count = 0]
                 IN  IF IsPending(z, d)
                     THEN UpdateDependentTests(
                            AddUntestedResult(
                              [z EXCEPT !.pending = Remove(@, d)],
                              d, CausePrereq, descriptor, outcome, o),
                            d, UNTESTED)
                     ELSE z
            ELSE LET m == [g EXCEPT !.descriptor_graph[d].count = n0 - 1]
                 IN  IF n0 - 1 = 0
                     THEN [m EXCEPT !.ready = Append(@, d)]
                     ELSE m
      IN  UpdateEdges(after, descriptor, outcome, i + 1)

UpdateDependentTests(g, descriptor, outcome) ==
    UpdateEdges(g, descriptor, outcome, 1)

\* The dependents are updated before the result itself is recorded.
HandleResponseUpdateFirst(g, result) ==
    IF result.kind = TEST
    THEN AddResult(UpdateDependentTests(g, result.id, result.outcome), result)
    ELSE AddResult(g, result)

\* The dependents are updated for a result of any kind.
HandleResponseAnyKind(g, result) ==
    LET g1 == AddResult(g, result)
    IN  IF result.id \in DOMAIN g1.descriptor_graph
        THEN UpdateDependentTests(g1, result.id, result.outcome)
        ELSE g1

\* The body of ExecutionEngine._CheckForResponse once a result was read.
HandleResponse(g, result) ==
    LET g1 == AddResult(g, result)
    IN  IF result.kind = TEST
        THEN UpdateDependentTests(g1, result.id, result.outcome)
        ELSE g1

\* Writes the fields of an engine-state record back to the variables.
SetEngineState(g) ==
    /\ idle_targets' = g.idle_targets
    /\ pending' = g.pending
    /\ ready' = g.ready
    /\ descriptor_graph' = g.descriptor_graph
    /\ test_results' = g.test_results
    /\ stream' = g.stream
    /\ stream2' = g.stream2

(***************************************************************************)
(* The inputs of a run: every prerequisite graph over the requested ids    *)
(* with at most MaxEdges edges (self-references and cycles included), any  *)
(* required outcome on an edge, any outcome of the tests' own code.        *)
(***************************************************************************)
EdgeSets == { E \in SUBSET (Ids \X Ids) : Cardinality(E) <= MaxEdges }

PrereqsOf(E, lab) ==
    [t \in Ids |-> [p \in { q \in Ids : <<q, t>> \in E } |-> lab[<<p, t>>]]]

\* Every test is in the group "g", or the last one is in a group "h" that
\* at most one target list of the model serves.
TargetGroups ==
    { [t \in Ids |-> "g"],
      [t \in Ids |-> IF t = MaxTests THEN "h" ELSE "g"] }

\* database.GetTest succeeds for every requested id, or raises for the
\* first one.  A test that cannot be loaded has no descriptor, hence no
\* prerequisites and no code of its own to run.
LoadMaps == { [t \in Ids |-> TRUE], [t \in Ids |-> t # 1] }

\* The engine and its targets after construction.
InitRun ==
    /\ test_ids = [i \in Ids |-> i]
    /\ \E E \in EdgeSets : \E lab \in [E -> Outcomes] :
          prereqs = PrereqsOf(E, lab)
    /\ impl \in [Ids -> ImplOutcomes]
    /\ loads \in LoadMaps
    /\ \A t \in Ids : ~loads[t] => (DOMAIN prereqs[t] = {} /\ impl[t] = PASS)
    /\ target_group \in TargetGroups
    /\ targets \in TargetLists
    /\ pc = "init"
    /\ wait = 1
    /\ cur = 0
    /\ terminated = FALSE
    /\ idle_targets = [i \in 1..Len(targets) |-> i]
    /\ response_queue = <<>>
    /\ pending = <<>>
    /\ ready = <<>>
    /\ descriptor_graph = [t \in {} |-> 0]
    /\ test_results = [t \in Ids |-> NoResult]
    /\ stream = <<>>
    /\ stream2 = <<>>
    /\ summarized = <<0, 0>>
    /\ dispatched = <<>>
    /\ commands = [tg \in 1..Len(targets) |-> <<>>]
    /\ target_idle = [tg \in 1..Len(targets) |-> TRUE]
    /\ rsh_pc = [tg \in 1..Len(targets) |-> "idle"]
    /\ child_alive = [tg \in 1..Len(targets) |-> TRUE]
    /\ started = [tg \in 1..Len(targets) |-> 0]
    /\ stopped = [tg \in 1..Len(targets) |-> 0]
    /\ evictions = {}

\* The pipes of the rsh target are not looked into: the thread and the
\* child are taken as one in the actions of the target's thread.
WireUnused ==
    /\ wire_cmds = <<>>
    /\ thread_pc = "unused"
    /\ stop_pc = "none"
    /\ to_child = <<>>
    /\ to_parent = <<>>
    /\ write_open = TRUE
    /\ read_open = TRUE
    /\ child_pc = "unused"
    /\ child_cmd = <<>>
    /\ child_queue = <<>>
    /\ child_log = <<>>
    /\ child_stops = 0
    /\ parent_entries = <<>>

Init == InitRun /\ WireUnused

(***************************************************************************)
(* ExecutionEngine.Run, first loop: Start is called on every target.       *)
(***************************************************************************)
StartTargets ==
    /\ pc = "init"
    /\ started' = [tg \in Targets |-> started[tg] + 1]
    /\ pc' = "build"
    /\ UNCHANGED <<wirevars, cfgvars, tgtvars, terminated, response_queue,
                   wait, cur, idle_targets, pending, ready,
                   descriptor_graph, test_results, stream, stream2,
                   summarized, dispatched, stopped, evictions>>

(***************************************************************************)
(* Run, first loop, when Start raises on the k-th target (the fork or a    *)
(* pipe of RSHTarget.Start fails, say): the loop is not inside the try     *)
(* statement, so the exception leaves Run at once.                         *)
(***************************************************************************)
StartRaises ==
    /\ pc = "init"
    /\ \E k \in Targets :
          started' = [tg \in Targets |-> IF tg <= k THEN started[tg] + 1
                                        ELSE started[tg]]
    /\ pc' = "start_raised"
    /\ UNCHANGED <<wirevars, cfgvars, tgtvars, terminated, response_queue,
                   wait, cur, idle_targets, pending, ready,
                   descriptor_graph, test_results, stream, stream2,
                   summarized, dispatched, stopped, evictions>>

(***************************************************************************)
(* _RunTests, graph construction: the nodes, then the edges.  The edge     *)
(* list of a prerequisite is filled in the order of __pending.             *)
(***************************************************************************)
\* __pending behind the first loop: the ids whose descriptor was loaded.
Loaded == SelectSeq(test_ids, LAMBDA t : loads[t])

RECURSIVE AddLoadFailures(_, _)

\* A failed load is passed over without a result.
IgnoreLoadFailures(g, i) == g

\* Lines 167-171: every id that could not be loaded gets an UNTESTED result.
AddLoadFailures(g, i) ==
    IF i > Len(test_ids) THEN g
    ELSE AddLoadFailures(
           IF loads[test_ids[i]] THEN g
           ELSE AddResult(g, Result(TEST, test_ids[i], UNTESTED, CauseLoad, 0)),
           i + 1)

\* Line 178: self.__descriptors[prereq_id] raises KeyError for a
\* prerequisite that has no descriptor.
MissingPrereq(d) == \E p \in DOMAIN prereqs[d] : ~loads[p]

BuildRaises == \E i \in 1..Len(Loaded) : MissingPrereq(Loaded[i])

\* The edges into p contributed by the descriptors at positions i..k-1 of
\* __pending.
RECURSIVE DepsUpTo(_, _, _)
DepsUpTo(p, i, k) ==
    IF i >= k \/ i > Len(Loaded) THEN <<>>
    ELSE LET d == Loaded[i]
         IN  (IF p \in DOMAIN prereqs[d] THEN << <<d, prereqs[d][p]>> >> ELSE <<>>)
             \o DepsUpTo(p, i + 1, k)

RECURSIVE ReadyUpTo(_, _)
ReadyUpTo(i, k) ==
    IF i >= k \/ i > Len(Loaded) THEN <<>>
    ELSE (IF DOMAIN prereqs[Loaded[i]] = {} THEN <<Loaded[i]>> ELSE <<>>)
         \o ReadyUpTo(i + 1, k)

DepsOf(p, i) == DepsUpTo(p, i, Len(Loaded) + 1)

ReadyOf(i) == ReadyUpTo(i, Len(Loaded) + 1)

BuildGraph ==
    /\ pc = "build"
    /\ ~BuildRaises
    /\ pending' = Loaded
    /\ descriptor_graph' =
          [t \in { u \in Ids : loads[u] } |->
              [count |-> Cardinality(DOMAIN prereqs[t]), deps |-> DepsOf(t, 1)]]
    /\ ready' = ReadyOf(1)
    /\ LET g == AddLoadFailures(EngineState, 1)
       IN  /\ test_results' = g.test_results
           /\ stream' = g.stream /\ stream2' = g.stream2
    /\ pc' = "loop"
    /\ UNCHANGED <<wirevars, cfgvars, summarized, tgtvars, terminated,
                   response_queue, wait, cur, idle_targets, dispatched,
                   started, stopped, evictions>>

\* The edge loop raises KeyError at the first pending descriptor that names
\* a prerequisite without descriptor.  The edges of the descriptors before
\* it are in the graph; of its own edges those are that prereqs.items()
\* yielded before the missing one (the order of a dict: any subset S), and
\* its count was not yet set.  The exception leaves _RunTests and Run's
\* finally clause runs.
BuildGraphRaises ==
    /\ pc = "build"
    /\ BuildRaises
    /\ LET k == Min({ i \in 1..Len(Loaded) : MissingPrereq(Loaded[i]) })
           d == Loaded[k]
       IN  \E S \in SUBSET { p \in DOMAIN prereqs[d] : loads[p] } :
             /\ descriptor_graph' =
                  [t \in { u \in Ids : loads[u] } |->
                     [count |-> IF IndexOf(t, Loaded) < k
                                THEN Cardinality(DOMAIN prereqs[t]) ELSE 0,
                      deps |-> DepsUpTo(t, 1, k)
                               \o (IF t \in S THEN << <<d, prereqs[d][t]>> >>
                                   ELSE <<>>)]]
             /\ ready' = ReadyUpTo(1, k)
    /\ pending' = Loaded
    /\ LET g == AddLoadFailures(EngineState, 1)
       IN  /\ test_results' = g.test_results
           /\ stream' = g.stream /\ stream2' = g.stream2
    /\ pc' = "stopping"
    /\ UNCHANGED <<wirevars, cfgvars, summarized, tgtvars, terminated,
                   response_queue, wait, cur, idle_targets, dispatched,
                   started, stopped, evictions>>

(***************************************************************************)
(* _RunTests, the dispatch loop.  One action per way through an iteration  *)
(* up to the first call that another thread can observe or affect.         *)
(***************************************************************************)
\* The loop test looks at ready only.
LoopConditionReadyOnly == ready # <<>> /\ ~terminated

\* The loop test takes no notice of a termination request.
LoopConditionWithoutRequest == pending # <<>> \/ ready # <<>>

\* Lines 187-188
LoopCondition == (pending # <<>> \/ ready # <<>>) /\ ~terminated

RECURSIVE AddUntestedAll(_, _, _)
AddUntestedAll(g, descriptors, i) ==
    IF i > Len(descriptors) THEN g
    ELSE AddUntestedAll(
           AddUntestedResult(g, descriptors[i], CauseTerminated, 0, "none", "none"),
           descriptors, i + 1)

\* The UNTESTED results are synthesized when termination was requested.
FinalizePendingOnRequest(g) ==
    IF terminated THEN AddUntestedAll(g, g.pending, 1) ELSE g

\* Lines 278-283: the tests still pending get an UNTESTED result "unless
\* there has been an explicit request that we exit immediately".
FinalizePending(g) ==
    IF ~terminated THEN AddUntestedAll(g, g.pending, 1) ELSE g

\* The loop ends, lines 278-283 run and _RunTests returns.
LoopExit ==
    /\ pc = "loop"
    /\ ~LoopCondition
    /\ SetEngineState(FinalizePending(EngineState))
    /\ pc' = "stopping"
    /\ UNCHANGED <<wirevars, cfgvars, summarized, tgtvars, terminated,
                   response_queue, wait, cur, dispatched, started, stopped,
                   evictions>>

\* No idle target: _CheckForResponse(wait=1), then continue.
LoopBlock ==
    /\ pc = "loop"
    /\ LoopCondition
    /\ idle_targets = <<>>
    /\ wait' = 1
    /\ pc' = "check"
    /\ UNCHANGED <<wirevars, cfgvars, tgtvars, terminated, response_queue,
                   cur, idle_targets, pending, ready, descriptor_graph,
                   test_results, stream, stream2, summarized, dispatched,
                   started, stopped, evictions>>

InFlight ==
    \/ \E tg \in Targets : commands[tg] # <<>>
    \/ response_queue # <<>>

\* The head of pending is removed without a result being recorded for it.
DiscardHeadSilently(g) ==
    LET descriptor == g.pending[1]
    IN  UpdateDependentTests([g EXCEPT !.pending = Remove(@, descriptor)],
                             descriptor, UNTESTED)

\* Lines 207-214: the head of pending is removed, gets an UNTESTED result
\* with cause "dependency cycle", and its dependents are updated.
DiscardHead(g) ==
    LET descriptor == g.pending[1]
        g1 == [g EXCEPT !.pending = Remove(@, descriptor)]
        g2 == AddUntestedResult(g1, descriptor, CauseCycle, 0, "none", "none")
    IN  UpdateDependentTests(g2, descriptor, UNTESTED)

\* No ready test and every target in the idle list: the head of pending
\* is discarded as a member of a dependency cycle.
CycleEvict ==
    /\ pc = "loop"
    /\ LoopCondition
    /\ idle_targets # <<>>
    /\ ready = <<>>
    /\ Len(idle_targets) = Len(targets)
    /\ SetEngineState(DiscardHead(EngineState))
    /\ evictions' = evictions \cup {[id |-> pending[1], busy |-> InFlight]}
    /\ pc' = "loop"
    /\ UNCHANGED <<wirevars, cfgvars, summarized, tgtvars, terminated,
                   response_queue, wait, cur, dispatched, started,
                   stopped>>

\* The scan of lines 220-261: the first ready descriptor for which some
\* idle target is in its group, and the first such target.
Scan == pc = "loop" /\ LoopCondition /\ idle_targets # <<>>
        /\ ~(ready = <<>> /\ Len(idle_targets) = Len(targets))

Matches(i) ==
    { j \in 1..Len(idle_targets) :
        IsInGroup(idle_targets[j], target_group[ready[i]]) }

\* Only the last ready descriptor that has a matching idle target counts.
LastCandidate ==
    { i \in 1..Len(ready) :
        Matches(i) # {} /\ \A j \in (i+1)..Len(ready) : Matches(j) = {} }

\* Lines 220-222: the ready descriptors that have a matching idle target.
Candidates == { i \in 1..Len(ready) : Matches(i) # {} }

\* Target.RunTest: a serial target runs the test before it returns, the
\* others queue the command for their threads.
RunTest(tg, d) ==
    IF targets[tg].kind = "serial"
    THEN /\ response_queue' = Append(response_queue,
                                     Result(TEST, d, impl[d], CauseNone, tg))
         /\ UNCHANGED commands
    ELSE /\ commands' = [commands EXCEPT ![tg] = Append(@, <<"RunTest", d>>)]
         /\ UNCHANGED response_queue

\* The descriptor is run but stays in ready and in pending.
DispatchWithoutRemoval ==
    /\ Scan
    /\ Candidates # {}
    /\ LET descriptor == ready[Min(Candidates)]
           target == idle_targets[Min(Matches(Min(Candidates)))]
       IN  /\ InSeq(descriptor, pending)
           /\ RunTest(target, descriptor)
           /\ dispatched' = Append(dispatched, <<descriptor, target>>)
           /\ cur' = target
    /\ pc' = "ran"
    /\ UNCHANGED <<wirevars, cfgvars, target_idle, rsh_pc, child_alive,
                   terminated, wait, idle_targets, descriptor_graph,
                   test_results, stream, stream2, summarized, started,
                   stopped, evictions, ready, pending>>

Dispatch ==
    /\ Scan
    /\ Candidates # {}
    /\ LET descriptor == ready[Min(Candidates)]
           target == idle_targets[Min(Matches(Min(Candidates)))]
       IN  /\ InSeq(descriptor, pending)
           /\ ready' = Remove(ready, descriptor)
           /\ pending' = Remove(pending, descriptor)
           /\ RunTest(target, descriptor)
           /\ dispatched' = Append(dispatched, <<descriptor, target>>)
           /\ cur' = target
    /\ pc' = "ran"
    /\ UNCHANGED <<wirevars, cfgvars, target_idle, rsh_pc, child_alive,
                   terminated, wait, idle_targets, descriptor_graph,
                   test_results, stream, stream2, summarized, started,
                   stopped, evictions>>

\* The stale ready descriptor is run although it is no longer pending.
SkipNotPendingRuns ==
    /\ Scan
    /\ Candidates # {}
    /\ LET descriptor == ready[Min(Candidates)]
           target == idle_targets[Min(Matches(Min(Candidates)))]
       IN  /\ ~InSeq(descriptor, pending)
           /\ ready' = Remove(ready, descriptor)
           /\ RunTest(target, descriptor)
           /\ dispatched' = Append(dispatched, <<descriptor, target>>)
           /\ cur' = target
    /\ pc' = "ran"
    /\ UNCHANGED <<wirevars, cfgvars, target_idle, rsh_pc, child_alive,
                   terminated, wait, idle_targets, pending, descriptor_graph,
                   test_results, stream, stream2, summarized, started,
                   stopped, evictions>>

\* The stale ready descriptor is dropped, but wait is left at 1.
SkipNotPendingAndWait ==
    /\ Scan
    /\ Candidates # {}
    /\ LET descriptor == ready[Min(Candidates)]
       IN  /\ ~InSeq(descriptor, pending)
           /\ ready' = Remove(ready, descriptor)
    /\ wait' = 1
    /\ pc' = "check"
    /\ UNCHANGED <<wirevars, cfgvars, tgtvars, terminated, response_queue,
                   cur, idle_targets, pending, descriptor_graph,
                   test_results, stream, stream2, summarized, dispatched,
                   started, stopped, evictions>>

\* The ready descriptor is no longer pending (ValueError): it is dropped
\* from ready and not run.
SkipNotPending ==
    /\ Scan
    /\ Candidates # {}
    /\ LET descriptor == ready[Min(Candidates)]
       IN  /\ ~InSeq(descriptor, pending)
           /\ ready' = Remove(ready, descriptor)
    /\ wait' = 0
    /\ pc' = "check"
    /\ UNCHANGED <<wirevars, cfgvars, tgtvars, terminated, response_queue,
                   cur, idle_targets, pending, descriptor_graph,
                   test_results, stream, stream2, summarized, dispatched,
                   started, stopped, evictions>>

\* No ready descriptor has an idle target in its group: wait stays 1.
NoMatch ==
    /\ Scan
    /\ Candidates = {}
    /\ wait' = 1
    /\ pc' = "check"
    /\ UNCHANGED <<wirevars, cfgvars, tgtvars, terminated, response_queue,
                   cur, idle_targets, pending, ready, descriptor_graph,
                   test_results, stream, stream2, summarized, dispatched,
                   started, stopped, evictions>>

\* The target is left in the idle list whatever IsIdle returns.
AfterRunTestKeepIdle ==
    /\ pc = "ran"
    /\ wait' = 0
    /\ pc' = "check"
    /\ cur' = 0
    /\ UNCHANGED <<wirevars, cfgvars, tgtvars, terminated, response_queue,
                   idle_targets, pending, ready, descriptor_graph,
                   test_results, stream, stream2, summarized, dispatched,
                   started, stopped, evictions>>

\* Lines 246-258: after RunTest the target is asked whether it is idle.
AfterRunTest ==
    /\ pc = "ran"
    /\ idle_targets' = IF ~IsIdle(cur) THEN Remove(idle_targets, cur)
                       ELSE idle_targets
    /\ wait' = 0
    /\ pc' = "check"
    /\ cur' = 0
    /\ UNCHANGED <<wirevars, cfgvars, tgtvars, terminated, response_queue,
                   pending, ready, descriptor_graph, test_results, stream,
                   stream2, summarized, dispatched, started, stopped,
                   evictions>>

\* _CheckForResponse: a result is on the queue and is handled.
CheckGot ==
    /\ pc = "check"
    /\ response_queue # <<>>
    /\ SetEngineState(HandleResponse(EngineState, Head(response_queue)))
    /\ response_queue' = Tail(response_queue)
    /\ pc' = "loop"
    /\ wait' = 1
    /\ UNCHANGED <<wirevars, cfgvars, summarized, tgtvars, terminated, cur,
                   dispatched, started, stopped, evictions>>

\* _CheckForResponse(wait=0) on an empty queue: qm.queue.Empty.
CheckEmpty ==
    /\ pc = "check"
    /\ wait = 0
    /\ response_queue = <<>>
    /\ pc' = "loop"
    /\ wait' = 1
    /\ UNCHANGED <<wirevars, cfgvars, tgtvars, terminated, response_queue,
                   cur, idle_targets, pending, ready, descriptor_graph,
                   test_results, stream, stream2, summarized, dispatched,
                   started, stopped, evictions>>

(***************************************************************************)
(* Run's finally clause: Stop on every target in order (Stop joins the     *)
(* target's threads, so it returns when the target's queued commands have  *)
(* been carried out), then the final reads of the response queue, then     *)
(* Summarize.                                                              *)
(***************************************************************************)
NextToStop == Min({ tg \in Targets : stopped[tg] = 0 })

\* target.Stop() for the next target of the list; after the last one the
\* engine goes on to read the remaining responses.
StopTarget ==
    /\ pc = "stopping"
    /\ \E tg \in Targets : stopped[tg] = 0
    /\ LET tg == NextToStop
       IN  /\ commands[tg] = <<>>
           /\ rsh_pc[tg] = "idle"
           /\ stopped' = [stopped EXCEPT ![tg] = @ + 1]
           /\ pc' = IF tg = Len(targets) THEN "drain" ELSE "stopping"
    /\ UNCHANGED <<wirevars, cfgvars, tgtvars, terminated, response_queue,
                   wait, cur, idle_targets, pending, ready,
                   descriptor_graph, test_results, stream, stream2,
                   summarized, dispatched, started, evictions>>

\* The remaining responses are taken from the queue but not handled.
DrainDrop ==
    /\ pc = "drain"
    /\ response_queue # <<>>
    /\ response_queue' = Tail(response_queue)
    /\ UNCHANGED <<wirevars, cfgvars, tgtvars, terminated, pc, wait, cur,
                   idle_targets, pending, ready, descriptor_graph,
                   test_results, stream, stream2, summarized, dispatched,
                   started, stopped, evictions>>

\* Lines 138-139: while self._CheckForResponse(wait=0): pass
DrainGot ==
    /\ pc = "drain"
    /\ response_queue # <<>>
    /\ SetEngineState(HandleResponse(EngineState, Head(response_queue)))
    /\ response_queue' = Tail(response_queue)
    /\ UNCHANGED <<wirevars, cfgvars, summarized, tgtvars, terminated, pc,
                   wait, cur, dispatched, started, stopped, evictions>>

\* The queue is empty: every result stream is told to Summarize and Run
\* returns, or lets the exception of _RunTests go on to its caller.
DrainDone ==
    /\ pc = "drain"
    /\ response_queue = <<>>
    /\ summarized' = [rs \in DOMAIN summarized |-> summarized[rs] + 1]
    /\ pc' = IF BuildRaises THEN "raised" ELSE "done"
    /\ UNCHANGED <<wirevars, cfgvars, tgtvars, terminated, response_queue,
                   wait, cur, idle_targets, pending, ready,
                   descriptor_graph, test_results, stream, stream2,
                   dispatched, started, stopped, evictions>>

(***************************************************************************)
(* The targets' threads.                                                   *)
(***************************************************************************)
\* A worker thread of a thread target finishes one of the assignments the
\* target's threads are working on and records its result.
ThreadComplete(tg) ==
    /\ targets[tg].kind = "thread"
    /\ \E i \in 1..Len(commands[tg]) :
          /\ i <= targets[tg].threads
          /\ response_queue' =
                Append(response_queue,
                       Result(TEST, commands[tg][i][2],
                              impl[commands[tg][i][2]], CauseNone, tg))
          /\ commands' = [commands EXCEPT ![tg] = Remove(@, commands[tg][i])]
    /\ UNCHANGED <<wirevars, cfgvars, engvars, target_idle, rsh_pc,
                   child_alive, terminated>>

\* The kind of result that belongs to a command.
KindOf(cmd) == IF cmd[1] = "RunTest" THEN TEST ELSE RESOURCE

\* What the RSHThread records for a command: the reply of the child when
\* the command could be written and the reply read, and otherwise (the
\* except clauses of lines 78-80, 96-99 and 115-117) a result of its own
\* making that notes the exception, with outcome ERROR.
RSHResult(tg, cmd) ==
    IF cmd[1] = "RunTest"
    THEN IF child_alive[tg]
         THEN Result(TEST, cmd[2], impl[cmd[2]], CauseNone, tg)
         ELSE Result(TEST, cmd[2], ERROR, CauseException, tg)
    ELSE LET action == IF cmd[1] = "SetUpResource" THEN "setup" ELSE "cleanup"
         IN  IF child_alive[tg]
             THEN [Result(RESOURCE, cmd[2], PASS, CauseNone, tg)
                     EXCEPT !.action = action]
             ELSE [Result(RESOURCE, cmd[2], ERROR, CauseException, tg)
                     EXCEPT !.action = action]

\* The thread takes its next command; when the child does not answer the
\* command is dropped and nothing is recorded for it.
RSHHandleReplyOnly(tg, name) ==
    /\ targets[tg].kind = "rsh"
    /\ rsh_pc[tg] = "idle"
    /\ commands[tg] # <<>>
    /\ Head(commands[tg])[1] = name
    /\ response_queue' = IF child_alive[tg]
                         THEN Append(response_queue,
                                     RSHResult(tg, Head(commands[tg])))
                         ELSE response_queue
    /\ commands' = [commands EXCEPT ![tg] = Tail(@)]
    /\ rsh_pc' = [rsh_pc EXCEPT ![tg] = IF child_alive[tg] THEN "recorded"
                                        ELSE "idle"]
    /\ UNCHANGED <<wirevars, cfgvars, engvars, target_idle, child_alive,
                   terminated>>

\* The thread takes its next command, which has the given name, and
\* RecordResult passes the result on to Target.RecordResult, which puts it
\* on the response queue.
RSHHandle(tg, name) ==
    /\ targets[tg].kind = "rsh"
    /\ rsh_pc[tg] = "idle"
    /\ commands[tg] # <<>>
    /\ Head(commands[tg])[1] = name
    /\ response_queue' = Append(response_queue, RSHResult(tg, Head(commands[tg])))
    /\ commands' = [commands EXCEPT ![tg] = Tail(@)]
    /\ rsh_pc' = [rsh_pc EXCEPT ![tg] = "recorded"]
    /\ UNCHANGED <<wirevars, cfgvars, engvars, target_idle, child_alive,
                   terminated>>

\* RSHThread._RunTest
RSHRunTest(tg) == RSHHandle(tg, "RunTest")

\* RSHThread._SetUpResource
RSHSetUpResource(tg) == RSHHandle(tg, "SetUpResource")

\* RSHThread._CleanUpResource
RSHCleanUpResource(tg) == RSHHandle(tg, "CleanUpResource")

\* RSHThread.RecordResult, second call: RSHTarget.NoteIdle.
RSHNoteIdle(tg) ==
    /\ targets[tg].kind = "rsh"
    /\ rsh_pc[tg] = "recorded"
    /\ target_idle' = [target_idle EXCEPT ![tg] = TRUE]
    /\ rsh_pc' = [rsh_pc EXCEPT ![tg] = "idle"]
    /\ UNCHANGED <<wirevars, cfgvars, engvars, commands, child_alive,
                   terminated, response_queue>>

\* The number of resource commands given to the targets so far.
ResourceCommandsIssued ==
    Cardinality({ i \in DOMAIN stream : stream[i].kind = RESOURCE })
    + Cardinality({ i \in DOMAIN response_queue :
                      response_queue[i].kind = RESOURCE })
    + Cardinality({ x \in { <<tg, i>> : tg \in Targets, i \in 1..MaxTests + MaxResourceCommands } :
                      /\ x[2] <= Len(commands[x[1]])
                      /\ commands[x[1]][x[2]][1] # "RunTest" })

\* RSHTarget.SetUpResource and RSHTarget.CleanUpResource, called by a user
\* of the target while the run is going on: the command is forwarded to
\* the thread.
RSHTargetResourceCommand(tg, name) ==
    /\ targets[tg].kind = "rsh"
    /\ pc = "loop"
    /\ ResourceCommandsIssued < MaxResourceCommands
    /\ commands' = [commands EXCEPT ![tg] = Append(@, <<name, 1>>)]
    /\ UNCHANGED <<wirevars, cfgvars, engvars, target_idle, rsh_pc,
                   child_alive, terminated, response_queue>>

RSHTargetSetUpResource(tg) == RSHTargetResourceCommand(tg, "SetUpResource")

RSHTargetCleanUpResource(tg) == RSHTargetResourceCommand(tg, "CleanUpResource")

\* The number of entries of the target's command queue that are cmd.
QueuedCommands(tg, cmd) ==
    Cardinality({ i \in DOMAIN commands[tg] : commands[tg][i] = cmd })

\* The commands of the given name and resource id that were given to the
\* target so far: still queued, or answered by a result that is on the
\* response queue or was processed.
ResourceCommands(tg, name, id) ==
    LET action == IF name = "SetUpResource" THEN "setup" ELSE "cleanup"
    IN  QueuedCommands(tg, <<name, id>>)
        + Cardinality({ i \in DOMAIN response_queue :
                          /\ response_queue[i].kind = RESOURCE
                          /\ response_queue[i].id = id
                          /\ response_queue[i].target = tg
                          /\ response_queue[i].action = action })
        + Cardinality({ i \in DOMAIN stream :
                          /\ stream[i].kind = RESOURCE
                          /\ stream[i].id = id
                          /\ stream[i].target = tg
                          /\ stream[i].action = action })

\* RSHTarget.CleanUpResource, called by the user of the target for a
\* resource it has called SetUpResource for before.
RSHTargetCleanUpAfterSetUp(tg) ==
    /\ targets[tg].kind = "rsh"
    /\ pc = "loop"
    /\ ResourceCommands(tg, "SetUpResource", 1) > 0
    /\ ResourceCommands(tg, "CleanUpResource", 1) = 0
    /\ commands' = [commands EXCEPT ![tg] = Append(@, <<"CleanUpResource", 1>>)]
    /\ UNCHANGED <<wirevars, cfgvars, engvars, target_idle, rsh_pc,
                   child_alive, terminated, response_queue>>

\* The child process dies or a pipe to it breaks: from now on writing a
\* command or reading a reply raises.  It is of consequence only for
\* commands that are yet to be carried out.
ChildDies(tg) ==
    /\ targets[tg].kind = "rsh"
    /\ child_alive[tg]
    /\ commands[tg] # <<>>
    /\ child_alive' = [child_alive EXCEPT ![tg] = FALSE]
    /\ UNCHANGED <<wirevars, cfgvars, engvars, commands, target_idle, rsh_pc,
                   terminated, response_queue>>

\* ExecutionEngine.RequestTermination, called from another thread.  The
\* engine reads __terminated only in the loop test of _RunTests (and once
\* more right behind the loop), so a request made at any other moment has
\* the effect of one made when the engine next stands at the loop test.
RequestTermination ==
    /\ pc = "loop"
    /\ ~terminated
    /\ terminated' = TRUE
    /\ UNCHANGED <<wirevars, cfgvars, engvars, tgtvars, response_queue>>

Next ==
    \/ StartTargets
    \/ StartRaises
    \/ BuildGraph
    \/ BuildGraphRaises
    \/ LoopExit
    \/ LoopBlock
    \/ CycleEvict
    \/ Dispatch
    \/ SkipNotPending
    \/ NoMatch
    \/ AfterRunTest
    \/ CheckGot
    \/ CheckEmpty
    \/ StopTarget
    \/ DrainGot
    \/ DrainDone
    \/ \E tg \in Targets : ThreadComplete(tg)
    \/ \E tg \in Targets : RSHRunTest(tg)
    \/ \E tg \in Targets : RSHNoteIdle(tg)
    \/ RequestTermination

Spec == Init /\ [][Next]_vars

(***************************************************************************)
(* The run on one rsh target whose child may die and whose user may give   *)
(* it resource commands.  The idle list is never empty on this target      *)
(* (IsIdle is always true), so the iteration that begins with a blocking   *)
(* read is left out, as are the threads of the thread target.              *)
(***************************************************************************)
InitRemote ==
    /\ Init
    /\ targets = <<RSHTarget>>
    /\ Cardinality({ e \in Ids \X Ids : e[1] \in DOMAIN prereqs[e[2]] })
          <= MaxEdgesRemote

NextRemote ==
    \/ StartTargets
    \/ StartRaises
    \/ BuildGraph
    \/ BuildGraphRaises
    \/ LoopExit
    \/ CycleEvict
    \/ Dispatch
    \/ SkipNotPending
    \/ NoMatch
    \/ AfterRunTest
    \/ CheckGot
    \/ CheckEmpty
    \/ StopTarget
    \/ DrainGot
    \/ DrainDone
    \/ \E tg \in Targets : RSHRunTest(tg)
    \/ \E tg \in Targets : RSHSetUpResource(tg)
    \/ \E tg \in Targets : RSHCleanUpResource(tg)
    \/ \E tg \in Targets : RSHNoteIdle(tg)
    \/ \E tg \in Targets : RSHTargetSetUpResource(tg)
    \/ \E tg \in Targets : RSHTargetCleanUpResource(tg)
    \/ \E tg \in Targets : ChildDies(tg)
    \/ RequestTermination

SpecRemote == InitRemote /\ [][NextRemote]_vars

(***************************************************************************)
(* The run on one rsh target whose user sets up a resource and may clean   *)
(* it up again.  The tests have no prerequisites, all of them can be       *)
(* loaded and the target serves their group, so the steps of the engine    *)
(* that deal with cycles, stale ready entries, unserved groups and load    *)
(* failures do not occur and are left out.                                 *)
(***************************************************************************)
InitResources ==
    /\ InitRemote
    /\ \A t \in Ids : DOMAIN prereqs[t] = {} /\ loads[t] /\ target_group[t] = "g"

NextResources ==
    \/ StartTargets
    \/ StartRaises
    \/ BuildGraph
    \/ LoopExit
    \/ Dispatch
    \/ AfterRunTest
    \/ CheckGot
    \/ CheckEmpty
    \/ StopTarget
    \/ DrainGot
    \/ DrainDone
    \/ \E tg \in Targets : RSHRunTest(tg)
    \/ \E tg \in Targets : RSHSetUpResource(tg)
    \/ \E tg \in Targets : RSHCleanUpResource(tg)
    \/ \E tg \in Targets : RSHNoteIdle(tg)
    \/ \E tg \in Targets : RSHTargetSetUpResource(tg)
    \/ \E tg \in Targets : RSHTargetCleanUpAfterSetUp(tg)
    \/ \E tg \in Targets : ChildDies(tg)
    \/ RequestTermination

SpecResources == InitResources /\ [][NextResources]_vars

(***************************************************************************)
(* The wire protocol between the RSHThread of an rsh target and the child  *)
(* process (`qmtest remote', QMTest.__ExecuteRemote), message by message.  *)
(* The thread has a list of commands to forward, in the order in which the *)
(* target was given them; Stop may be called on the target at any moment   *)
(* and takes effect in the thread when that list is used up.  The engine   *)
(* itself takes no step here.                                              *)
(***************************************************************************)
WireIds == 1..2

WireCommandNames == {"RunTest", "SetUpResource", "CleanUpResource"}

WireCommands == { <<name, id>> : name \in WireCommandNames, id \in WireIds }

\* The bare string "Stop": the one message that is not a tuple of three.
StopMessage == <<"Stop">>

\* isinstance(command, bytes), line 1558
IsStopMessage(msg) == Len(msg) = 1

RECURSIVE SeqsUpTo(_, _)
SeqsUpTo(S, n) ==
    IF n = 0 THEN { <<>> }
    ELSE LET shorter == SeqsUpTo(S, n - 1)
         IN  shorter \cup { Append(q, x) : q \in shorter, x \in S }

InitWire ==
    /\ InitRun
    /\ targets = <<RSHTarget>>
    /\ \A t \in Ids : DOMAIN prereqs[t] = {} /\ target_group[t] = "g"
    /\ \A t \in Ids : t \notin WireIds => impl[t] = PASS
    /\ wire_cmds \in SeqsUpTo(WireCommands, MaxWireCommands)
    /\ thread_pc = "next"
    /\ stop_pc = "none"
    /\ to_child = <<>>
    /\ to_parent = <<>>
    /\ write_open = TRUE
    /\ read_open = TRUE
    /\ child_pc = "read"
    /\ child_cmd = <<>>
    /\ child_queue = <<>>
    /\ child_log = <<>>
    /\ child_stops = 0
    /\ parent_entries = <<>>

\* The child process is running.
ChildRuns == child_pc \in {"read", "run", "reply"}

\* An entry of the engine's response queue: the object that was put there
\* is a Result, or it is the list of Results of a reply.
ResultEntry(result) == [list |-> FALSE, results |-> <<result>>]

ListEntry(results) == [list |-> TRUE, results |-> results]

\* The result the thread makes up in its except clause (lines 78-80,
\* 96-99, 115-117).
SynthesizedResult(cmd) ==
    IF cmd[1] = "RunTest"
    THEN Result(TEST, cmd[2], ERROR, CauseException, 1)
    ELSE [Result(RESOURCE, cmd[2], ERROR, CauseException, 1)
            EXCEPT !.action = IF cmd[1] = "SetUpResource" THEN "setup"
                              ELSE "cleanup"]

\* RSHThread._RunTest, _SetUpResource and _CleanUpResource up to the call of
\* cPickle.load: the command is written to the pipe; when the child has
\* gone the write raises and the result the thread makes up is recorded.
ThreadSend ==
    /\ thread_pc = "next"
    /\ wire_cmds # <<>>
    /\ IF ChildRuns
       THEN /\ to_child' = Append(to_child, Head(wire_cmds))
            /\ thread_pc' = "sent"
            /\ UNCHANGED <<wire_cmds, parent_entries>>
       ELSE /\ parent_entries' =
                  Append(parent_entries,
                         ResultEntry(SynthesizedResult(Head(wire_cmds))))
            /\ wire_cmds' = Tail(wire_cmds)
            /\ UNCHANGED <<to_child, thread_pc>>
    /\ UNCHANGED <<runvars, stop_pc, to_parent, write_open, read_open,
                   child_pc, child_cmd, child_queue, child_log, child_stops>>

\* result = cPickle.load(self.__read_file); self.RecordResult(result):
\* the object that was unpickled, the list the child wrote, is recorded.
ThreadReceive ==
    /\ thread_pc = "sent"
    /\ to_parent # <<>>
    /\ parent_entries' = Append(parent_entries, ListEntry(Head(to_parent)))
    /\ to_parent' = Tail(to_parent)
    /\ wire_cmds' = Tail(wire_cmds)
    /\ thread_pc' = "next"
    /\ UNCHANGED <<runvars, stop_pc, to_child, write_open, read_open,
                   child_pc, child_cmd, child_queue, child_log, child_stops>>

\* cPickle.load raises at the end of the file when the child has gone
\* without a reply: the result the thread makes up is recorded.
ThreadReceiveFails ==
    /\ thread_pc = "sent"
    /\ to_parent = <<>>
    /\ ~ChildRuns
    /\ parent_entries' =
          Append(parent_entries, ResultEntry(SynthesizedResult(Head(wire_cmds))))
    /\ wire_cmds' = Tail(wire_cmds)
    /\ thread_pc' = "next"
    /\ UNCHANGED <<runvars, stop_pc, to_child, to_parent, write_open,
                   read_open, child_pc, child_cmd, child_queue, child_log,
                   child_stops>>

\* RSHTarget.Stop, line 329: the thread is told to stop.
TargetStop ==
    /\ stop_pc = "none"
    /\ stop_pc' = "called"
    /\ UNCHANGED <<runvars, wire_cmds, thread_pc, to_child, to_parent,
                   write_open, read_open, child_pc, child_cmd, child_queue,
                   child_log, child_stops, parent_entries>>

\* The exception of a failed write of "Stop" ends the thread before the
\* files are closed.
ThreadStopUnguarded ==
    /\ thread_pc = "next"
    /\ wire_cmds = <<>>
    /\ stop_pc = "called"
    /\ IF ChildRuns
       THEN /\ to_child' = Append(to_child, StopMessage)
            /\ write_open' = FALSE
            /\ read_open' = FALSE
       ELSE UNCHANGED <<to_child, write_open, read_open>>
    /\ thread_pc' = "exited"
    /\ UNCHANGED <<runvars, wire_cmds, stop_pc, to_parent, child_pc,
                   child_cmd, child_queue, child_log, child_stops,
                   parent_entries>>

\* RSHThread._Stop: "Stop" is written if that is still possible, both
\* files are closed and the thread ends.
ThreadStop ==
    /\ thread_pc = "next"
    /\ wire_cmds = <<>>
    /\ stop_pc = "called"
    /\ to_child' = IF ChildRuns THEN Append(to_child, StopMessage) ELSE to_child
    /\ write_open' = FALSE
    /\ read_open' = FALSE
    /\ thread_pc' = "exited"
    /\ UNCHANGED <<runvars, wire_cmds, stop_pc, to_parent, child_pc,
                   child_cmd, child_queue, child_log, child_stops,
                   parent_entries>>

\* RSHTarget.Stop, line 330: join returns when the thread has ended.
TargetJoin ==
    /\ stop_pc = "called"
    /\ thread_pc = "exited"
    /\ stop_pc' = "joined"
    /\ UNCHANGED <<runvars, wire_cmds, thread_pc, to_child, to_parent,
                   write_open, read_open, child_pc, child_cmd, child_queue,
                   child_log, child_stops, parent_entries>>

\* RSHTarget.Stop, line 332: waitpid returns when the child has ended.
TargetWait ==
    /\ stop_pc = "joined"
    /\ ~ChildRuns
    /\ stop_pc' = "returned"
    /\ UNCHANGED <<runvars, wire_cmds, thread_pc, to_child, to_parent,
                   write_open, read_open, child_pc, child_cmd, child_queue,
                   child_log, child_stops, parent_entries>>

\* Lines 1554-1564: the child reads a message; on "Stop" it stops its
\* target and leaves the loop.
ChildRead ==
    /\ child_pc = "read"
    /\ to_child # <<>>
    /\ LET command == Head(to_child)
       IN  /\ child_stops' = IF IsStopMessage(command) THEN child_stops + 1
                             ELSE child_stops
           /\ child_pc' = IF IsStopMessage(command) THEN "exited" ELSE "run"
           /\ child_cmd' = IF IsStopMessage(command) THEN <<>> ELSE command
    /\ to_child' = Tail(to_child)
    /\ UNCHANGED <<runvars, wire_cmds, thread_pc, stop_pc, to_parent,
                   write_open, read_open, child_queue, child_log,
                   parent_entries>>

\* Lines 1564-1568: whatever `method' is, the child calls
\* target.RunTest(database.GetTest(id), context), and the serial target
\* puts the test's result on the child's response queue.
ChildDoes(method, id) ==
    [executed |-> "RunTest",
     results |-> << Result(TEST, id, impl[id], CauseNone, 1) >>]

\* Lines 1566-1568 for a test that the database holds.
ChildRun ==
    /\ child_pc = "run"
    /\ loads[child_cmd[2]]
    /\ LET done == ChildDoes(child_cmd[1], child_cmd[2])
       IN  /\ child_queue' = child_queue \o done.results
           /\ child_log' = Append(child_log,
                                  [command |-> child_cmd,
                                   executed |-> done.executed,
                                   results |-> done.results,
                                   replied |-> FALSE])
    /\ child_pc' = "reply"
    /\ UNCHANGED <<runvars, wire_cmds, thread_pc, stop_pc, to_child,
                   to_parent, write_open, read_open, child_cmd, child_stops,
                   parent_entries>>

\* Line 1566: database.GetTest(id) raises for an id that is not the id of
\* a test in the database; nothing handles the exception and the child
\* ends without a reply.
ChildRunRaises ==
    /\ child_pc = "run"
    /\ ~loads[child_cmd[2]]
    /\ child_log' = Append(child_log,
                           [command |-> child_cmd, executed |-> "nothing",
                            results |-> <<>>, replied |-> FALSE])
    /\ child_pc' = "raised"
    /\ UNCHANGED <<runvars, wire_cmds, thread_pc, stop_pc, to_child,
                   to_parent, write_open, read_open, child_cmd, child_queue,
                   child_stops, parent_entries>>

\* The child goes back to reading without having written a reply.
ChildReplyWithheld ==
    /\ child_pc = "reply"
    /\ child_queue' = <<>>
    /\ child_pc' = "read"
    /\ child_cmd' = <<>>
    /\ UNCHANGED <<runvars, wire_cmds, thread_pc, stop_pc, to_child,
                   to_parent, write_open, read_open, child_log, child_stops,
                   parent_entries>>

\* Lines 1570-1584: the results are taken from the child's queue until it
\* is empty, and the list of them is written and flushed.
ChildReply ==
    /\ child_pc = "reply"
    /\ to_parent' = Append(to_parent, child_queue)
    /\ child_queue' = <<>>
    /\ child_log' = [child_log EXCEPT ![Len(child_log)].replied = TRUE]
    /\ child_pc' = "read"
    /\ child_cmd' = <<>>
    /\ UNCHANGED <<runvars, wire_cmds, thread_pc, stop_pc, to_child,
                   write_open, read_open, child_stops, parent_entries>>

\* The transport fails: the remote shell or the child is killed, or the
\* connection is lost.
TransportFails ==
    /\ ChildRuns
    /\ child_pc' = "killed"
    /\ UNCHANGED <<runvars, wire_cmds, thread_pc, stop_pc, to_child,
                   to_parent, write_open, read_open, child_cmd, child_queue,
                   child_log, child_stops, parent_entries>>

NextWire ==
    \/ ThreadSend
    \/ ThreadReceive
    \/ ThreadReceiveFails
    \/ TargetStop
    \/ ThreadStop
    \/ TargetJoin
    \/ TargetWait
    \/ ChildRead
    \/ ChildRun
    \/ ChildRunRaises
    \/ ChildReply
    \/ TransportFails

SpecWire == InitWire /\ [][NextWire]_vars

(***************************************************************************)
(* Notions the properties below are stated with.                           *)
(***************************************************************************)
Done == pc = "done"

\* The number of TEST results for t that were written to the result stream.
NumResults(t) ==
    Cardinality({ i \in DOMAIN stream : stream[i].kind = TEST /\ stream[i].id = t })

WasDispatched(t) == \E i \in DOMAIN dispatched : dispatched[i][1] = t

\* p is a prerequisite of d.
Edge(p, d) == p \in DOMAIN prereqs[d]

\* There is a path of 1..n prerequisite edges from a to b.
RECURSIVE Reaches(_, _, _)
Reaches(a, b, n) ==
    /\ n > 0
    /\ \/ Edge(a, b)
       \/ \E c \in Ids : Edge(a, c) /\ Reaches(c, b, n - 1)

OnCycle(t) == Reaches(t, t, MaxTests)
HasCycle == \E t \in Ids : OnCycle(t)
Acyclic == ~HasCycle

\* a and b lie on a common cycle.
SameCycle(a, b) ==
    a = b \/ (Reaches(a, b, MaxTests) /\ Reaches(b, a, MaxTests))

\* Every requested id has a descriptor.
AllLoad == \A t \in Ids : loads[t]

AllGroupsServed ==
    \A t \in Ids : \E tg \in Targets : IsInGroup(tg, target_group[t])

(***************************************************************************)
(* C1: for an acyclic prerequisite graph over the requested ids, when Run  *)
(* has returned and no termination was requested, every requested id has   *)
(* exactly one TEST result, recorded in __test_results and written to the  *)
(* result stream, with an outcome of PASS, FAIL, ERROR or UNTESTED.        *)
(***************************************************************************)
C1_ExactlyOneResult ==
    (Done /\ ~terminated /\ Acyclic) =>
        \A t \in Ids :
            /\ NumResults(t) = 1
            /\ test_results[t].kind = TEST
            /\ test_results[t].id = t
            /\ test_results[t].outcome \in Outcomes
            /\ \E i \in DOMAIN stream : stream[i] = test_results[t]

\* A finished run on a target with two threads in which one test was run
\* and failed and a dependent of it was given a synthesized UNTESTED.
C1_Witness ==
    /\ Done /\ ~terminated /\ Acyclic
    /\ \E tg \in Targets : targets[tg].threads > 1
    /\ \E t \in Ids : test_results[t].outcome = FAIL /\ test_results[t].target # 0
    /\ \E t \in Ids : test_results[t].outcome = UNTESTED /\ test_results[t].target = 0
    /\ \A t \in Ids : NumResults(t) = 1

(***************************************************************************)
(* C2: RunTest is called for a test only in a state in which, for every    *)
(* prerequisite of the test, the engine has already recorded and written   *)
(* a result whose outcome is the outcome the test requires.                *)
(***************************************************************************)
C2_DispatchAfterPrerequisites ==
    [][ Len(dispatched') > Len(dispatched) =>
          LET d == dispatched'[Len(dispatched')][1]
          IN  \A p \in DOMAIN prereqs[d] :
                /\ test_results[p].outcome = prereqs[d][p]
                /\ \E i \in DOMAIN stream : stream[i] = test_results[p]
      ]_vars

\* A test with a prerequisite has been handed to a thread target while
\* another assignment of that run came back from a different target.
C2_Witness ==
    \E i \in DOMAIN dispatched :
        /\ DOMAIN prereqs[dispatched[i][1]] # {}
        /\ targets[dispatched[i][2]].kind = "thread"
        /\ \E p \in DOMAIN prereqs[dispatched[i][1]] :
              test_results[p].target \notin {0, dispatched[i][2]}

(***************************************************************************)
(* C3: if A is a prerequisite of B with required outcome PASS and A's      *)
(* outcome is FAIL, then after a run without termination request B's       *)
(* outcome is UNTESTED, B's result names A as the failed prerequisite and  *)
(* B was never dispatched.  Stated for an acyclic graph in which A is the  *)
(* only prerequisite of B.                                                 *)
(***************************************************************************)
C3_FailedPrerequisite ==
    (Done /\ ~terminated /\ Acyclic) =>
        \A A \in Ids, B \in Ids :
            ( /\ DOMAIN prereqs[B] = {A}
              /\ prereqs[B][A] = PASS
              /\ test_results[A].outcome = FAIL )
            => /\ test_results[B].outcome = UNTESTED
               /\ test_results[B].prereq = A
               /\ ~WasDispatched(B)

(***************************************************************************)
(* C4: gating is by equality with the required outcome.  With test 1       *)
(* without prerequisites and tests 2 and 3 each requiring some outcome of  *)
(* test 1, on one serial target: test 1 gets the outcome of its own run;   *)
(* a dependent whose required outcome is that outcome is dispatched and    *)
(* gets the outcome of its own run; the other is never dispatched and is   *)
(* UNTESTED with cause 'failed prerequisite', naming test 1, its actual    *)
(* outcome and the outcome that was required.                              *)
(***************************************************************************)
GatingScenario ==
    /\ targets = <<SerialTarget>>
    /\ DOMAIN prereqs[1] = {}
    /\ DOMAIN prereqs[2] = {1}
    /\ DOMAIN prereqs[3] = {1}
    /\ \A t \in Ids : t > 3 => DOMAIN prereqs[t] = {}

C4_GatingByEquality ==
    (GatingScenario /\ Done /\ ~terminated) =>
        /\ test_results[1].outcome = impl[1]
        /\ \A t \in {2, 3} :
              IF impl[1] = prereqs[t][1]
              THEN /\ WasDispatched(t)
                   /\ test_results[t].outcome = impl[t]
                   /\ test_results[t].cause = CauseNone
              ELSE /\ ~WasDispatched(t)
                   /\ test_results[t].outcome = UNTESTED
                   /\ test_results[t].cause = CausePrereq
                   /\ test_results[t].prereq = 1
                   /\ test_results[t].actual = impl[1]
                   /\ test_results[t].expected = prereqs[t][1]

\* The spec's scenario: a fails, b requires a = PASS, c requires a = FAIL.
C4_Witness ==
    /\ GatingScenario /\ Done /\ ~terminated
    /\ impl[1] = FAIL
    /\ prereqs[2][1] = PASS
    /\ prereqs[3][1] = FAIL
    /\ test_results[2].outcome = UNTESTED
    /\ WasDispatched(3)
    /\ test_results[3].outcome = impl[3]

(***************************************************************************)
(* C5 as claimed: when Run has returned after a termination request, every *)
(* test that is still pending has exactly one UNTESTED result with cause   *)
(* 'execution terminated'.                                                 *)
(***************************************************************************)
C5_UntestedOnTermination ==
    (Done /\ terminated) =>
        \A i \in DOMAIN pending :
            /\ NumResults(pending[i]) = 1
            /\ test_results[pending[i]].outcome = UNTESTED
            /\ test_results[pending[i]].cause = CauseTerminated

(***************************************************************************)
(* C5 as amended: no result with cause 'execution terminated' is ever      *)
(* written, and a test that is still pending (in particular when Run has   *)
(* returned after a termination request) has no result at all.             *)
(***************************************************************************)
C5_NoResultOnTermination ==
    /\ \A i \in DOMAIN stream : stream[i].cause # CauseTerminated
    /\ \A i \in DOMAIN pending :
          /\ NumResults(pending[i]) = 0
          /\ test_results[pending[i]] = NoResult

\* Run has returned after a termination request that came before the
\* first dispatch: every test is still pending.
C5_Witness ==
    /\ Done /\ terminated
    /\ Len(pending) = MaxTests
    /\ dispatched = <<>>
    /\ stream = <<>>

(***************************************************************************)
(* C6: for a prerequisite graph with a cycle, Run does not stay in the     *)
(* dispatch loop for ever.  The engine is never left in a blocking read of *)
(* the response queue while the queue is empty and no thread of any target *)
(* has anything left to do (no other step of the run is a wait), and       *)
(* without a termination request Run returns with pending and ready empty. *)
(***************************************************************************)
BlockedForEver ==
    /\ pc = "check" /\ wait = 1 /\ response_queue = <<>>
    /\ \A tg \in Targets : commands[tg] = <<>> /\ rsh_pc[tg] = "idle"

C6_CycleRunReturns ==
    HasCycle =>
        /\ ~BlockedForEver
        /\ (Done /\ ~terminated) => (pending = <<>> /\ ready = <<>>)

(***************************************************************************)
(* C7 as claimed: for a prerequisite graph with a cycle, after Run has     *)
(* returned (without termination request) at least one test on a cycle     *)
(* has an UNTESTED result with cause 'dependency cycle'.                   *)
(***************************************************************************)
C7_CycleMemberHasCycleCause ==
    (Done /\ ~terminated /\ HasCycle) =>
        \E t \in Ids :
            /\ OnCycle(t)
            /\ test_results[t].outcome = UNTESTED
            /\ test_results[t].cause = CauseCycle

(***************************************************************************)
(* C7 as amended: after Run has returned without termination request,     *)
(* every cycle of the prerequisite graph has a member that was not run     *)
(* but given an UNTESTED result by the engine, with cause 'dependency      *)
(* cycle' or, when a prerequisite of it had an outcome other than the      *)
(* required one, with cause 'failed prerequisite'.                         *)
(***************************************************************************)
C7_CycleMemberSynthesized ==
    (Done /\ ~terminated) =>
        \A t \in Ids :
            OnCycle(t) =>
                \E u \in Ids :
                    /\ SameCycle(t, u)
                    /\ OnCycle(u)
                    /\ ~WasDispatched(u)
                    /\ test_results[u].outcome = UNTESTED
                    /\ test_results[u].target = 0
                    /\ test_results[u].cause \in {CauseCycle, CausePrereq}
                    /\ test_results[u].cause = CausePrereq =>
                          /\ Edge(test_results[u].prereq, u)
                          /\ test_results[u].actual
                                # prereqs[u][test_results[u].prereq]

\* A finished run over a graph with a cycle none of whose members has the
\* cause 'dependency cycle': a prerequisite outside the cycle failed.
C7_Witness ==
    /\ Done /\ ~terminated /\ HasCycle
    /\ \A t \in Ids : test_results[t].cause # CauseCycle
    /\ \E t \in Ids : OnCycle(t) /\ test_results[t].cause = CausePrereq
    /\ \E t \in Ids : ~OnCycle(t) /\ test_results[t].outcome = FAIL

(***************************************************************************)
(* C8: whenever the engine discards the head of pending as a member of a   *)
(* dependency cycle, no assignment is outstanding on any target and no     *)
(* unprocessed result is on the response queue.                            *)
(***************************************************************************)
C8_EvictionOnlyWhenQuiescent ==
    \A e \in evictions : ~e.busy

(***************************************************************************)
(* C9: for a fixed input and fixed outcomes of the tests' own code, the    *)
(* outcome recorded for a test does not depend on when results arrive.     *)
(* For an acyclic graph the outcome that the prerequisites determine is:   *)
(* the outcome of the test's own run if every prerequisite has the outcome *)
(* required of it, and UNTESTED otherwise.  It is the outcome recorded     *)
(* when every result is processed before the engine's next loop test, so   *)
(* independence of the timing means that it is recorded in every run.      *)
(***************************************************************************)
RECURSIVE DeterminedOutcome(_, _)
DeterminedOutcome(t, n) ==
    IF n = 0 \/ ~loads[t] THEN UNTESTED
    ELSE IF \A p \in DOMAIN prereqs[t] :
                DeterminedOutcome(p, n - 1) = prereqs[t][p]
         THEN impl[t]
         ELSE UNTESTED

C9_OutcomeIndependentOfTiming ==
    (Done /\ ~terminated /\ Acyclic) =>
        \A t \in Ids : test_results[t].outcome = DeterminedOutcome(t, MaxTests)

(***************************************************************************)
(* C10: for independent tests (no prerequisites) on one target with more   *)
(* than one thread, no test id ever has two results, every result taken    *)
(* from the response queue is the result of a dispatched test, and when    *)
(* Run has returned without termination request the response queue is      *)
(* empty and the stream holds exactly one result per test id, which is the *)
(* outcome of that test's own run.                                         *)
(***************************************************************************)
IndependentOnThreads ==
    /\ Len(targets) = 1
    /\ targets[1].kind = "thread"
    /\ targets[1].threads > 1
    /\ AllLoad
    /\ \A t \in Ids : DOMAIN prereqs[t] = {}

C10_OneResultPerIndependentTest ==
    IndependentOnThreads =>
        /\ \A t \in Ids : NumResults(t) <= 1
        /\ \A i \in DOMAIN stream :
              WasDispatched(stream[i].id) /\ stream[i].target = 1
        /\ (Done /\ ~terminated) =>
              /\ response_queue = <<>>
              /\ Len(stream) = MaxTests
              /\ \A t \in Ids :
                    /\ NumResults(t) = 1
                    /\ test_results[t].outcome = impl[t]

\* All results are in, they were produced while another test was in flight
\* on the same target, and they arrived in an order other than the order
\* of dispatch.
C10_Witness ==
    /\ IndependentOnThreads /\ Done /\ ~terminated
    /\ Len(stream) = MaxTests
    /\ \E i \in DOMAIN stream : stream[i].id # dispatched[i][1]

(***************************************************************************)
(* C11: no target ever has more assignments outstanding than its declared  *)
(* concurrency capacity (1 for a serial or rsh target, the number of       *)
(* threads for a thread target).                                           *)
(***************************************************************************)
Outstanding(tg) == Len(commands[tg])

C11_CapacityRespected ==
    \A tg \in Targets : Outstanding(tg) <= targets[tg].threads

(***************************************************************************)
(* C12: two tests without dependency relation on two asynchronously        *)
(* executing targets.  With independent tests whose group both targets     *)
(* serve, on two thread targets of one thread each: while one test is in   *)
(* flight and a test is ready and a target idle, the engine can dispatch   *)
(* (it does not wait for the first result); tests in flight at the same    *)
(* time are on different targets; when two are in flight either one can    *)
(* complete first; and whatever the order of arrival, every test of a      *)
(* finished run has the result of its own execution.                       *)
(***************************************************************************)
TwoAsyncTargets ==
    /\ targets = <<ThreadTarget(1), ThreadTarget(1)>>
    /\ AllLoad
    /\ \A t \in Ids : DOMAIN prereqs[t] = {}
    /\ AllGroupsServed

C12_ConcurrentOnTwoTargets ==
    TwoAsyncTargets =>
        /\ ( /\ pc = "loop" /\ ~terminated
              /\ ready # <<>> /\ idle_targets # <<>>
              /\ \E tg \in Targets : commands[tg] # <<>> )
            => ENABLED Dispatch
        /\ \A tg \in Targets : Len(commands[tg]) <= 1
        /\ (commands[1] # <<>> /\ commands[2] # <<>>)
            => (ENABLED ThreadComplete(1) /\ ENABLED ThreadComplete(2))
        /\ (Done /\ ~terminated) =>
              \A t \in Ids : /\ NumResults(t) = 1
                             /\ test_results[t].outcome = impl[t]

\* Two tests are in flight at the same time, one on each target, and no
\* result of either has arrived yet.
C12_Witness ==
    /\ TwoAsyncTargets
    /\ commands[1] # <<>> /\ commands[2] # <<>>
    /\ commands[1] # commands[2]
    /\ response_queue = <<>>
    /\ stream = <<>>

(***************************************************************************)
(* C13: when Run is over, by returning or by letting an exception go on    *)
(* to its caller, Stop has been called exactly once on every target whose  *)
(* Start had returned; and Stop is never called twice on a target.         *)
(***************************************************************************)
RunOver == pc \in {"done", "raised", "start_raised"}

\* Start was called on tg and returned: when Start raised, it did so on the
\* last target it was called on.
StartReturned(tg) ==
    /\ started[tg] >= 1
    /\ ~(pc = "start_raised" /\ \A u \in Targets : u > tg => started[u] = 0)

C13_StopForEveryStarted ==
    /\ \A tg \in Targets : stopped[tg] <= 1
    /\ RunOver => \A tg \in Targets : StartReturned(tg) => stopped[tg] = 1

(***************************************************************************)
(* C14: a requested id whose descriptor cannot be loaded is never in       *)
(* pending or ready, is never dispatched or held by a target, and never    *)
(* has more than one result; once the graph construction has run it has    *)
(* exactly one result, UNTESTED with cause 'could not load test' and no    *)
(* target, which stands in the result stream before the result of any      *)
(* test that was dispatched.                                               *)
(***************************************************************************)
C14_LoadFailureUntested ==
    \A t \in Ids :
        ~loads[t] =>
            /\ ~InSeq(t, pending) /\ ~InSeq(t, ready)
            /\ ~WasDispatched(t)
            /\ \A tg \in Targets : ~InSeq(<<"RunTest", t>>, commands[tg])
            /\ NumResults(t) <= 1
            /\ pc \notin {"init", "start_raised", "build"} =>
                  /\ NumResults(t) = 1
                  /\ test_results[t] = Result(TEST, t, UNTESTED, CauseLoad, 0)
                  /\ \A i \in DOMAIN stream :
                        stream[i].id = t =>
                            \A j \in 1..(i-1) : ~WasDispatched(stream[j].id)

\* A finished run in which the first id could not be loaded and another
\* test was dispatched and has the result of its own run.
C14_Witness ==
    /\ Done /\ ~terminated
    /\ ~loads[1]
    /\ test_results[1].cause = CauseLoad
    /\ stream[1].id = 1
    /\ \E t \in Ids : WasDispatched(t) /\ test_results[t].outcome = FAIL
                        /\ test_results[t].target # 0

(***************************************************************************)
(* C15: when a requested test names as prerequisite an id that has no      *)
(* descriptor (it failed to load, or was not requested), Run does not end  *)
(* with an exception, and once the targets are stopped and the response    *)
(* queue is drained every requested id has exactly one TEST result.        *)
(***************************************************************************)
C15_MissingPrerequisiteResolved ==
    BuildRaises =>
        /\ pc # "raised"
        /\ (pc = "drain" /\ response_queue = <<>> /\ ~terminated) =>
              \A t \in Ids : NumResults(t) = 1

(***************************************************************************)
(* C16: the thread of an rsh target records exactly one result for every   *)
(* command it handles.  Every test dispatched to the target is either      *)
(* still a command in the thread's queue or has exactly one result with    *)
(* the target's name, on the response queue or already processed; a step   *)
(* in which the thread finishes a command puts one result for that         *)
(* command on the response queue: the child's reply while the child is     *)
(* alive, an ERROR result that notes the exception once it is dead; and    *)
(* with a dead child the thread can still take up every queued command.    *)
(***************************************************************************)
ResultsFrom(tg, kind, id) ==
    Cardinality({ i \in DOMAIN response_queue :
                    /\ response_queue[i].kind = kind
                    /\ response_queue[i].id = id
                    /\ response_queue[i].target = tg })
    + Cardinality({ i \in DOMAIN stream :
                      /\ stream[i].kind = kind
                      /\ stream[i].id = id
                      /\ stream[i].target = tg })

RSHHandled(tg) ==
    /\ targets[tg].kind = "rsh"
    /\ commands[tg] # <<>>
    /\ commands'[tg] = Tail(commands[tg])

C16_OneResultPerCommand ==
    /\ [](\A tg \in Targets :
            targets[tg].kind = "rsh" =>
              /\ \A i \in DOMAIN dispatched :
                    dispatched[i][2] = tg =>
                      QueuedCommands(tg, <<"RunTest", dispatched[i][1]>>)
                      + ResultsFrom(tg, TEST, dispatched[i][1]) = 1
              /\ (rsh_pc[tg] = "idle" /\ commands[tg] # <<>>) =>
                    ENABLED (\/ RSHRunTest(tg)
                             \/ RSHSetUpResource(tg)
                             \/ RSHCleanUpResource(tg)))
    /\ [][ \A tg \in Targets :
             RSHHandled(tg) =>
               LET cmd == Head(commands[tg])
               IN  /\ Len(response_queue') = Len(response_queue) + 1
                   /\ LET r == response_queue'[Len(response_queue')]
                      IN  /\ r.kind = KindOf(cmd) /\ r.id = cmd[2]
                          /\ r.target = tg
                          /\ IF child_alive[tg]
                             THEN /\ r.cause = CauseNone
                                  /\ cmd[1] = "RunTest" => r.outcome = impl[cmd[2]]
                             ELSE /\ r.outcome = ERROR
                                  /\ r.cause = CauseException
       ]_vars

\* A finished run in which the child answered one test, then died, and
\* a later test and a resource command each got their ERROR result.
C16_Witness ==
    /\ Done
    /\ \E tg \in Targets :
          /\ targets[tg].kind = "rsh" /\ ~child_alive[tg]
          /\ \E i, j, k \in DOMAIN stream :
                /\ stream[i].kind = TEST /\ stream[i].target = tg
                /\ stream[i].cause = CauseNone
                /\ stream[j].kind = TEST /\ stream[j].target = tg
                /\ stream[j].outcome = ERROR /\ stream[j].cause = CauseException
                /\ stream[k].kind = RESOURCE /\ stream[k].target = tg
                /\ stream[k].outcome = ERROR /\ stream[k].cause = CauseException

(***************************************************************************)
(* C17: RSHTarget.IsIdle is true exactly when the target can take one      *)
(* more assignment: false while as many assignments are outstanding (given *)
(* to the target, result not yet recorded) as the target has capacity,     *)
(* true otherwise.                                                         *)
(***************************************************************************)
C17_RSHIdleIffCapacity ==
    \A tg \in Targets :
        targets[tg].kind = "rsh" =>
            (RSHTargetIsIdle(tg) <=> Outstanding(tg) < targets[tg].threads)

(***************************************************************************)
(* C18: every result the engine receives or makes is written exactly once  *)
(* to every result stream, in the order in which the engine processed the  *)
(* results.  The two streams have seen the same sequence of results; that  *)
(* sequence only grows at its end; a result taken from the response queue  *)
(* is the next one written, before the UNTESTED results its processing     *)
(* gives rise to; every test dispatched is an unfinished command, or has   *)
(* its one result from the target on the response queue or in the stream;  *)
(* and the result recorded for a test is the last one written for it.      *)
(***************************************************************************)
InStreamFromTarget(t) ==
    Cardinality({ i \in DOMAIN stream :
                    /\ stream[i].kind = TEST /\ stream[i].id = t
                    /\ stream[i].target # 0 })

OnResponseQueue(t) ==
    Cardinality({ i \in DOMAIN response_queue :
                    response_queue[i].kind = TEST /\ response_queue[i].id = t })

HeldByTarget(t) ==
    Cardinality({ x \in { <<tg, i>> : tg \in Targets, i \in 1..MaxTests } :
                    /\ x[2] <= Len(commands[x[1]])
                    /\ commands[x[1]][x[2]] = <<"RunTest", t>> })

C18_EveryResultWrittenOnce ==
    /\ [](/\ stream2 = stream
          /\ \A t \in Ids :
                /\ WasDispatched(t) =>
                      HeldByTarget(t) + OnResponseQueue(t)
                      + InStreamFromTarget(t) = 1
                /\ ~WasDispatched(t) =>
                      HeldByTarget(t) + OnResponseQueue(t)
                      + InStreamFromTarget(t) = 0
                /\ test_results[t] # NoResult =>
                      \E i \in DOMAIN stream :
                          /\ stream[i] = test_results[t]
                          /\ \A j \in (i+1)..Len(stream) :
                                ~(stream[j].kind = TEST /\ stream[j].id = t))
    /\ [][ /\ Len(stream') >= Len(stream)
           /\ SubSeq(stream', 1, Len(stream)) = stream
           /\ (response_queue # <<>> /\ response_queue' = Tail(response_queue))
                => /\ Len(stream') > Len(stream)
                   /\ stream'[Len(stream) + 1] = Head(response_queue)
       ]_vars

\* A finished run whose streams hold the result of a test that a target
\* ran, followed by the UNTESTED result made for a dependent of it, and
\* the result of another test.
C18_Witness ==
    /\ Done /\ ~terminated
    /\ Len(stream) = MaxTests
    /\ stream2 = stream
    /\ \E i \in 1..(Len(stream) - 1) :
          /\ stream[i].target # 0
          /\ stream[i+1].target = 0
          /\ stream[i+1].cause = CausePrereq
          /\ stream[i+1].prereq = stream[i].id

(***************************************************************************)
(* C19: Summarize is called exactly once on every result stream in every   *)
(* run: never twice, and once when Run is over; at the time of the call    *)
(* every target has been stopped, no target holds an unfinished command    *)
(* and the response queue is empty, so every result a target produced is   *)
(* in the streams; and nothing is written to a stream after its Summarize. *)
(***************************************************************************)
C19_SummarizeOnceAtEnd ==
    /\ [](\A rs \in DOMAIN summarized :
            /\ summarized[rs] <= 1
            /\ RunOver => summarized[rs] = 1
            /\ summarized[rs] = 1 =>
                  /\ \A tg \in Targets : stopped[tg] = 1 /\ commands[tg] = <<>>
                  /\ response_queue = <<>>
                  /\ \A t \in Ids : WasDispatched(t) => InStreamFromTarget(t) = 1)
    /\ [][ (\E rs \in DOMAIN summarized : summarized[rs] >= 1)
             => (stream' = stream /\ stream2' = stream2) ]_vars

(***************************************************************************)
(* C20: from the loop test that sees the termination request on, RunTest   *)
(* is not called again; the assignments in flight are carried out, and     *)
(* when Run has returned every test that was dispatched has the result of  *)
(* its own run, from its target, recorded and written to the streams.      *)
(***************************************************************************)
C20_NoDispatchAfterTermination ==
    /\ [][ terminated =>
             /\ dispatched' = dispatched
             /\ \A tg \in Targets :
                   Len(commands'[tg]) <= Len(commands[tg]) ]_vars
    /\ []((Done /\ terminated) =>
            \A t \in Ids :
                WasDispatched(t) =>
                    /\ InStreamFromTarget(t) = 1
                    /\ test_results[t].target # 0
                    /\ test_results[t].outcome = impl[t]
                    /\ \E i \in DOMAIN stream2 : stream2[i] = test_results[t])

\* Termination was requested while a test was in flight and others were
\* pending: the targets have been stopped, the test's result has arrived
\* and the final reads of the response queue are about to process it.
C20_Witness ==
    /\ pc = "drain" /\ terminated
    /\ \A tg \in Targets : stopped[tg] = 1
    /\ pending # <<>>
    /\ response_queue # <<>>
    /\ Head(response_queue).kind = TEST
    /\ WasDispatched(Head(response_queue).id)
    /\ test_results[Head(response_queue).id] = NoResult

(***************************************************************************)
(* The value of Run and the exit code of the `run' command.                *)
(***************************************************************************)
\* ExecutionEngine.Run has no return statement: whatever the results were,
\* the call returns None.
RunReturns == "None"

\* The truth value Python gives the `if engine.Run():' of line 1690.
IsTrue(v) == v # "None"

\* QMTest.__ExecuteRun, lines 1690-1693.
ExecuteRun == IF IsTrue(RunReturns) THEN 1 ELSE 0

\* No expectation is given: the expected outcome of every id is PASS.
ExpectedOutcome(id) == PASS

AnyUnexpectedOutcome ==
    \E i \in DOMAIN stream : stream[i].outcome # ExpectedOutcome(stream[i].id)

(***************************************************************************)
(* C25: when Run has returned, the value it returns is true iff some       *)
(* result of the run had an outcome other than the expected one (PASS),    *)
(* and the `run' command returns 1 in exactly that case and 0 otherwise.   *)
(***************************************************************************)
C25_SignalIffUnexpected ==
    Done =>
        /\ IsTrue(RunReturns) <=> AnyUnexpectedOutcome
        /\ ExecuteRun = (IF AnyUnexpectedOutcome THEN 1 ELSE 0)

(***************************************************************************)
(* The order in which tests are started.                                   *)
(***************************************************************************)
NoPrerequisites(t) == loads[t] /\ DOMAIN prereqs[t] = {}

DispatchIndex(t) == Min({ i \in DOMAIN dispatched : dispatched[i][1] = t })

\* d is the first descriptor of ready for which some idle target is in its
\* group, and tg is the first such target of the idle list.
FirstSatisfiableMatch(d, tg) ==
    \E k \in 1..Len(ready) :
       /\ ready[k] = d
       /\ \A j \in 1..(k-1) :
             \A m \in 1..Len(idle_targets) :
                ~IsInGroup(idle_targets[m], target_group[ready[j]])
       /\ \E m \in 1..Len(idle_targets) :
             /\ idle_targets[m] = tg
             /\ IsInGroup(tg, target_group[d])
             /\ \A j \in 1..(m-1) :
                   ~IsInGroup(idle_targets[j], target_group[d])

\* Every RunTest call goes to the first satisfiable match of the scan.
DispatchIsFirstMatch ==
    dispatched' # dispatched =>
        \E d \in Ids : \E tg \in Targets :
            /\ dispatched' = Append(dispatched, <<d, tg>>)
            /\ FirstSatisfiableMatch(d, tg)

(***************************************************************************)
(* C26: tests without prerequisites whose group some target serves are     *)
(* dispatched in the order of test_ids: when such a test has been          *)
(* dispatched, every such test before it in test_ids was dispatched        *)
(* earlier.  And every RunTest call is for the earliest node of ready that *)
(* has a matching idle target, on the first matching target of the idle    *)
(* list.                                                                   *)
(***************************************************************************)
C26_StartedInOrderGiven ==
    /\ [](\A a, b \in Ids :
            ( /\ NoPrerequisites(a) /\ NoPrerequisites(b)
              /\ IndexOf(a, test_ids) < IndexOf(b, test_ids)
              /\ \E tg \in Targets : IsInGroup(tg, target_group[a])
              /\ WasDispatched(b) )
            => (WasDispatched(a) /\ DispatchIndex(a) < DispatchIndex(b)))
    /\ [][DispatchIsFirstMatch]_vars

\* C26 as amended: the order of test_ids is kept among the tests without
\* prerequisites of one and the same target group; a test of another group
\* may be started ahead of an earlier test whose group has no idle target.
\* Every RunTest call is for the earliest node of ready that has a matching
\* idle target, on the first matching target of the idle list.
C26_StartedInOrderWithinGroup ==
    /\ [](\A a, b \in Ids :
            ( /\ NoPrerequisites(a) /\ NoPrerequisites(b)
              /\ IndexOf(a, test_ids) < IndexOf(b, test_ids)
              /\ target_group[a] = target_group[b]
              /\ WasDispatched(b) )
            => (WasDispatched(a) /\ DispatchIndex(a) < DispatchIndex(b)))
    /\ [][DispatchIsFirstMatch]_vars

\* Three tests without prerequisites, the last in a group of its own: it
\* was started ahead of the second, whose target was busy with the first.
C26_Witness ==
    /\ \A t \in Ids : NoPrerequisites(t)
    /\ Len(dispatched) = 3
    /\ dispatched[1][1] = 1 /\ dispatched[2][1] = 3 /\ dispatched[3][1] = 2
    /\ dispatched[2][2] # dispatched[1][2]
    /\ dispatched[3][2] = dispatched[1][2]

(***************************************************************************)
(* The reads of the response queue in the dispatch loop.                   *)
(***************************************************************************)
\* The engine is at a _CheckForResponse(wait=1) of the loop.
BlockingRead == pc = "check" /\ wait = 1

(***************************************************************************)
(* C28: the engine performs a blocking read of the response queue only     *)
(* when no target is idle: whenever the idle list is not empty, the read   *)
(* of that loop iteration is non-blocking.                                 *)
(***************************************************************************)
C28_BlockOnlyWhenNoneIdle ==
    BlockingRead => idle_targets = <<>>

\* C28 as amended: the read of an iteration is blocking only when no target
\* is idle or when no ready test has an idle target in its group; in an
\* iteration that called RunTest or dropped a stale ready entry the read is
\* non-blocking.
C28_BlockOnlyWhenNothingToDispatch ==
    /\ [](BlockingRead => (idle_targets = <<>> \/ Candidates = {}))
    /\ [][ (pc = "ran" /\ pc' # "ran") => (pc' = "check" /\ wait' = 0) ]_vars
    /\ [][ (pc = "loop" /\ pc' = "check" /\ ready' # ready) => wait' = 0 ]_vars

\* The engine is in a blocking read although a target is idle: nothing is
\* ready, and another target is at work on a test.
C28_Witness ==
    /\ BlockingRead
    /\ idle_targets # <<>>
    /\ ready = <<>>
    /\ \E tg \in Targets : commands[tg] # <<>>

(***************************************************************************)
(* C29: whenever the engine is in a blocking read of the response queue,   *)
(* an assignment is outstanding on some target or a result is already on   *)
(* the queue, so that the read returns once the targets complete their     *)
(* assignments.                                                            *)
(***************************************************************************)
C29_BlockingReadHasProducer ==
    BlockingRead => InFlight

(***************************************************************************)
(* The unresolved-prerequisite counts of the graph.                        *)
(***************************************************************************)
Occurrences(d, s) == Cardinality({ i \in DOMAIN s : s[i] = d })

PrerequisiteCount(graph, d) == graph[d].count

\* Every prerequisite of d has a recorded result with the outcome that d
\* requires of it.
AllPrerequisitesMatched(d, results) ==
    \A p \in DOMAIN prereqs[d] : results[p].outcome = prereqs[d][p]

\* One step of the run, seen from node d: the count does not grow, and d
\* is appended to ready (once) exactly when the count comes down to zero
\* with every prerequisite's outcome the required one.
CountStep(d) ==
    LET n == PrerequisiteCount(descriptor_graph, d)
        m == PrerequisiteCount(descriptor_graph', d)
        before == Occurrences(d, ready)
        after == Occurrences(d, ready')
        matched == AllPrerequisitesMatched(d, test_results')
    IN  /\ m <= n
        /\ (n = 0) => (m = 0)
        /\ DOMAIN prereqs[d] # {} =>
              /\ after > before => (n > 0 /\ m = 0 /\ matched /\ after = before + 1)
              /\ (n > 0 /\ m = 0 /\ matched) => after = before + 1

(***************************************************************************)
(* C30: in every reachable state the count of a node is at least 0 and at  *)
(* most the number of its prerequisites; once zero it stays zero; a node   *)
(* with prerequisites is appended to ready exactly when a matching         *)
(* prerequisite result brings its count down to zero, so at most once in a *)
(* run, and is never twice in ready.                                       *)
(***************************************************************************)
C30_CountWithinBounds ==
    /\ [](\A d \in DOMAIN descriptor_graph :
             /\ PrerequisiteCount(descriptor_graph, d) >= 0
             /\ PrerequisiteCount(descriptor_graph, d)
                   <= Cardinality(DOMAIN prereqs[d])
             /\ Occurrences(d, ready) <= 1)
    /\ [][ \A d \in DOMAIN descriptor_graph \cap DOMAIN descriptor_graph' :
              CountStep(d) ]_vars

\* A test with two prerequisites was run: both had the required outcome,
\* its count came down from 2 to 0 and it went through ready.
C30_Witness ==
    \E d \in DOMAIN descriptor_graph :
       /\ Cardinality(DOMAIN prereqs[d]) = 2
       /\ PrerequisiteCount(descriptor_graph, d) = 0
       /\ WasDispatched(d)
       /\ AllPrerequisitesMatched(d, test_results)

(***************************************************************************)
(* C21: when the run is over, a cleanup command was given to the target    *)
(* for every resource for which a setup command was given to it during the *)
(* run, also when the run ended by a termination request or the setup      *)
(* failed.                                                                 *)
(***************************************************************************)
C21_CleanUpForEverySetUp ==
    RunOver =>
        \A tg \in Targets :
            ResourceCommands(tg, "SetUpResource", 1) > 0
               => ResourceCommands(tg, "CleanUpResource", 1) > 0

(***************************************************************************)
(* The child's loop, as seen on the pipes.                                 *)
(***************************************************************************)
\* The child takes a message from the command pipe in this step.
ChildReads == Len(to_child') < Len(to_child)

AllReplied == \A i \in DOMAIN child_log : child_log[i].replied

(***************************************************************************)
(* C22: the child's loop is strictly request/reply.  When the child reads  *)
(* a message, the reply to every command it read before has been written   *)
(* to the response pipe and its own response queue is empty; a reply is    *)
(* the list of all results of the one command just carried out.  When the  *)
(* message is "Stop" the child writes nothing, calls Stop on its target    *)
(* (once in all) and leaves the loop, and from then on it carries out no   *)
(* command and writes no reply.                                            *)
(***************************************************************************)
C22_StrictRequestReply ==
    /\ [](/\ child_stops <= 1
          /\ child_pc = "read" => (AllReplied /\ child_queue = <<>>)
          /\ child_pc = "exited" => (child_stops = 1 /\ AllReplied))
    /\ [][ ChildReads =>
             /\ AllReplied /\ child_queue = <<>>
             /\ to_parent' = to_parent
             /\ IF IsStopMessage(Head(to_child))
                THEN /\ child_stops' = child_stops + 1
                     /\ child_pc' = "exited"
                     /\ child_log' = child_log
                ELSE child_stops' = child_stops ]_vars
    /\ [][ \A i \in DOMAIN child_log :
              (~child_log[i].replied /\ child_log'[i].replied) =>
                  /\ i = Len(child_log)
                  /\ to_parent' = Append(to_parent, child_log[i].results)
                  /\ child_queue' = <<>> ]_vars
    /\ [][ child_pc = "exited" =>
              /\ child_pc' = "exited"
              /\ child_log' = child_log
              /\ child_stops' = child_stops
              /\ Len(to_parent') <= Len(to_parent) ]_vars

\* The child answered three commands, one after the other, then read
\* "Stop" and left its loop.
C22_Witness ==
    /\ child_pc = "exited"
    /\ child_stops = 1
    /\ Len(child_log) = MaxWireCommands
    /\ AllReplied
    /\ Len(parent_entries) = MaxWireCommands

(***************************************************************************)
(* C23: the child carries out the action that the first element of the     *)
(* command names (RunTest, SetUpResource or CleanUpResource), and the      *)
(* results it writes back are of the kind that goes with it: test results  *)
(* for RunTest, resource results for the two resource commands.            *)
(***************************************************************************)
C23_ChildExecutesNamedAction ==
    \A i \in DOMAIN child_log :
        child_log[i].executed # "nothing" =>
            /\ child_log[i].executed = child_log[i].command[1]
            /\ \A k \in DOMAIN child_log[i].results :
                  child_log[i].results[k].kind = KindOf(child_log[i].command)

(***************************************************************************)
(* C24: with a healthy transport and assignments that are tests of the     *)
(* database, the rsh target puts on the engine's response queue what a     *)
(* serial target would put there for the same assignments: one entry per   *)
(* Result, each entry the Result of the assignment that caused it, in the  *)
(* order of the assignments; and the thread and the child agree on the     *)
(* number of messages per command (one command, one reply).                *)
(***************************************************************************)
IsTestAssignment(cmd) == cmd[1] = "RunTest" /\ loads[cmd[2]]

HealthyTestRun ==
    /\ child_pc # "killed"
    /\ \A i \in DOMAIN wire_cmds : IsTestAssignment(wire_cmds[i])
    /\ \A i \in DOMAIN child_log : IsTestAssignment(child_log[i].command)
    /\ child_pc = "run" => IsTestAssignment(child_cmd)

\* What a serial target records for RunTest(id).
SerialTargetEntry(id) == ResultEntry(Result(TEST, id, impl[id], CauseNone, 1))

C24_RemoteEquivalentToSerial ==
    HealthyTestRun =>
        /\ Len(parent_entries) <= Len(child_log)
        /\ \A i \in DOMAIN parent_entries :
              parent_entries[i] = SerialTargetEntry(child_log[i].command[2])
        /\ Len(to_child) + Len(to_parent) <= 1

(***************************************************************************)
(* C27: RSHTarget.Stop releases what the target holds.  When Stop has      *)
(* returned, the thread has closed both of its files and has ended (it was *)
(* joined), and the child process has ended (it was waited for), whether   *)
(* or not "Stop" could be written to the child; and as long as Stop has    *)
(* not returned some step of the thread, the child or Stop is possible.    *)
(***************************************************************************)
C27_StopReleasesResources ==
    /\ stop_pc = "returned" =>
          /\ ~write_open /\ ~read_open
          /\ thread_pc = "exited"
          /\ ~ChildRuns
          /\ wire_cmds = <<>>
    /\ stop_pc \in {"joined", "returned"} => thread_pc = "exited"
    /\ stop_pc \in {"called", "joined"} => ENABLED NextWire

\* Stop has returned although the child had gone before "Stop" could be
\* written: it never read "Stop", and the commands it left unanswered got
\* results made up by the thread.
C27_Witness ==
    /\ stop_pc = "returned"
    /\ child_pc \in {"killed", "raised"}
    /\ child_stops = 0
    /\ ~write_open /\ ~read_open
    /\ Len(parent_entries) = MaxWireCommands

(***************************************************************************)
(* C31: a test is passed to RunTest at most once in a run, hence to one    *)
(* target only: no id occurs twice among the RunTest calls made, no id is  *)
(* in flight twice (on one target or on two), no id has two results that   *)
(* come from a target, and a test is passed to RunTest only while it has   *)
(* no result yet.                                                          *)
(***************************************************************************)
RunTestCommands(t) ==
    { x \in { <<tg, k>> : tg \in Targets, k \in 1..MaxTests } :
        /\ x[2] <= Len(commands[x[1]])
        /\ commands[x[1]][x[2]] = <<"RunTest", t>> }

TargetResults(s, t) ==
    { i \in DOMAIN s : s[i].kind = TEST /\ s[i].id = t /\ s[i].target # 0 }

C31_DispatchedAtMostOnce ==
    /\ [](\A t \in Ids :
            /\ Cardinality({ i \in DOMAIN dispatched : dispatched[i][1] = t }) <= 1
            /\ Cardinality(RunTestCommands(t))
                 + Cardinality(TargetResults(response_queue, t))
                 + Cardinality(TargetResults(stream, t)) <= 1)
    /\ [][ Len(dispatched') > Len(dispatched) =>
             LET d == dispatched'[Len(dispatched')][1]
             IN  /\ test_results[d] = NoResult
                 /\ NumResults(d) = 0
                 /\ ~WasDispatched(d)
         ]_vars

\* Every test was run, on two targets between them, and every result has
\* arrived and was written.
C31_Witness ==
    /\ Done
    /\ Len(targets) = 2
    /\ \A t \in Ids : WasDispatched(t) /\ NumResults(t) = 1
    /\ \E i, j \in DOMAIN dispatched : dispatched[i][2] # dispatched[j][2]

(***************************************************************************)
(* C32: a test the engine has given a synthesized UNTESTED result (cause   *)
(* 'dependency cycle' or 'failed prerequisite') is never passed to RunTest *)
(* and has that one result only, also when a later result of one of its    *)
(* prerequisites brings its count to zero and puts it on ready, or differs *)
(* from the outcome it requires.                                           *)
(***************************************************************************)
Finalised(t) ==
    \E i \in DOMAIN stream :
        /\ stream[i].kind = TEST /\ stream[i].id = t
        /\ stream[i].outcome = UNTESTED /\ stream[i].target = 0
        /\ stream[i].cause \in {CauseCycle, CausePrereq}

C32_FinalisedNeverRunAgain ==
    \A t \in Ids :
        Finalised(t) =>
            /\ ~WasDispatched(t)
            /\ NumResults(t) = 1
            /\ ~InSeq(t, pending)
            /\ RunTestCommands(t) = {}
            /\ \A i \in DOMAIN response_queue : response_queue[i].id # t

\* A test that was discarded as a member of a cycle while its prerequisite
\* was in flight has been put on ready by the result of that prerequisite.
C32_Witness ==
    \E t \in Ids :
        /\ test_results[t].cause = CauseCycle
        /\ InSeq(t, ready)
        /\ descriptor_graph[t].count = 0
        /\ \E p \in DOMAIN prereqs[t] : test_results[p].target # 0

(***************************************************************************)
(* C33 as claimed: in every state the idle list holds targets of the run   *)
(* only, holds no target twice, every target in it reports IsIdle() true,  *)
(* and every target that reports IsIdle() true and has no result waiting   *)
(* on the response queue is in the list.                                   *)
(***************************************************************************)
ListWellFormed ==
    /\ \A i \in DOMAIN idle_targets : idle_targets[i] \in Targets
    /\ \A i, j \in DOMAIN idle_targets :
          idle_targets[i] = idle_targets[j] => i = j

ListedAreIdle == \A i \in DOMAIN idle_targets : IsIdle(idle_targets[i])

ResultWaiting(tg) ==
    \E i \in DOMAIN response_queue : response_queue[i].target = tg

IdleAreListed ==
    \A tg \in Targets :
        (IsIdle(tg) /\ ~ResultWaiting(tg)) => InSeq(tg, idle_targets)

C33_IdleListConsistent ==
    ListWellFormed /\ ListedAreIdle /\ IdleAreListed

(***************************************************************************)
(* C33 as amended: the list is well formed and holds every idle target     *)
(* without a waiting result in every state; every target in it reports     *)
(* IsIdle() true in every state but the one between the return of          *)
(* target.RunTest (line 245) and the IsIdle call that follows it (248), in *)
(* which the target just given a test is still in the list whether or not  *)
(* it has become busy.                                                     *)
(***************************************************************************)
C33_IdleListConsistentOutsideDispatch ==
    /\ ListWellFormed
    /\ IdleAreListed
    /\ pc # "ran" => ListedAreIdle
    /\ pc = "ran" =>
          \A i \in DOMAIN idle_targets :
              idle_targets[i] # cur => IsIdle(idle_targets[i])

\* A thread target that was busy and left out of the list is back in it
\* after its result was processed, while the other target of the run is
\* busy and not in the list.
C33_Witness ==
    /\ pc = "loop"
    /\ Len(targets) = 2
    /\ stream # <<>>
    /\ \E tg \in Targets :
          /\ targets[tg].kind = "thread"
          /\ stream[Len(stream)].target = tg
          /\ InSeq(tg, idle_targets)
    /\ \E tg \in Targets : ~IsIdle(tg) /\ ~InSeq(tg, idle_targets)

(***************************************************************************)
(* C34: when the prerequisite graph has no cycle and every requested test  *)
(* can be loaded (so every prerequisite is among the tests of the run), no *)
(* result with cause 'dependency cycle' is ever written or recorded.       *)
(***************************************************************************)
C34_CycleCauseOnlyForCycles ==
    (Acyclic /\ AllLoad) =>
        /\ \A i \in DOMAIN stream : stream[i].cause # CauseCycle
        /\ \A t \in Ids : test_results[t].cause # CauseCycle

(***************************************************************************)
(* C35 as claimed.  A step that records the result of a test p (a result   *)
(* taken from the response queue, or the UNTESTED result of a test that is *)
(* discarded) is looked at.  For every dependent d of p that requires an   *)
(* outcome other than p's, at the end of that step d and every test that   *)
(* can be reached from d over edges whose required outcome is not UNTESTED *)
(* has an UNTESTED result, was never passed to RunTest, and its result     *)
(* names one of its own prerequisites, that prerequisite's outcome and the *)
(* outcome that was required of it; and a test that requires UNTESTED of   *)
(* a test that got its UNTESTED result in this step, and still waited for  *)
(* prerequisites, waits for fewer afterwards.                              *)
(***************************************************************************)
Requires(d, p) == p \in DOMAIN prereqs[d]

RECURSIVE CancelReach(_, _)
CancelReach(d, n) ==
    {d} \cup
    (IF n = 0 THEN {}
     ELSE UNION { CancelReach(x, n - 1) :
                    x \in { y \in Ids : Requires(y, d) /\ prereqs[y][d] # UNTESTED } })

\* The first result written in this step.
Recorded == stream'[Len(stream) + 1]

RecordingStep ==
    /\ pc \notin {"build", "init"}
    /\ Len(stream') > Len(stream)
    /\ Recorded.kind = TEST

EndsUntested(x) ==
    /\ test_results'[x].kind = TEST
    /\ test_results'[x].outcome = UNTESTED
    /\ test_results'[x].target = 0
    /\ \A i \in DOMAIN dispatched' : dispatched'[i][1] # x
    /\ \A i \in DOMAIN pending' : pending'[i] # x

AnnotatedWithPrerequisite(x) ==
    LET res == test_results'[x]
    IN  /\ res.cause = CausePrereq
        /\ res.prereq \in DOMAIN prereqs[x]
        /\ res.expected = prereqs[x][res.prereq]
        /\ res.actual = test_results'[res.prereq].outcome
        /\ res.actual # res.expected

CancelledInStep(x) ==
    /\ test_results[x] = NoResult
    /\ test_results'[x].outcome = UNTESTED
    /\ test_results'[x].target = 0

CountDecremented ==
    \A x \in Ids, e \in Ids :
        ( /\ CancelledInStep(x)
          /\ loads[e] /\ Requires(e, x) /\ prereqs[e][x] = UNTESTED
          /\ descriptor_graph[e].count > 0 )
        => descriptor_graph'[e].count < descriptor_graph[e].count

C35_TransitiveCancellation ==
    [][ RecordingStep =>
          /\ \A d \in Ids :
                (Requires(d, Recorded.id) /\ prereqs[d][Recorded.id] # Recorded.outcome)
                => \A x \in CancelReach(d, MaxTests) :
                      EndsUntested(x) /\ AnnotatedWithPrerequisite(x)
          /\ CountDecremented
      ]_vars

(***************************************************************************)
(* C35 as amended: the same, but a test that was given its UNTESTED result *)
(* as a member of a dependency cycle before keeps that result, which has   *)
(* cause 'dependency cycle' and names no prerequisite.                     *)
(***************************************************************************)
C35_TransitiveCancellationOfPending ==
    [][ RecordingStep =>
          /\ \A d \in Ids :
                (Requires(d, Recorded.id) /\ prereqs[d][Recorded.id] # Recorded.outcome)
                => \A x \in CancelReach(d, MaxTests) :
                      /\ EndsUntested(x)
                      /\ \/ AnnotatedWithPrerequisite(x)
                         \/ test_results'[x].cause = CauseCycle
          /\ CountDecremented
      ]_vars

\* A test failed, its dependent was cancelled for it, and the dependent's
\* own dependent was cancelled next, in the step that recorded the failure:
\* the three results follow one another in the stream.
C35_Witness ==
    \E i \in DOMAIN stream :
        /\ i + 2 <= Len(stream)
        /\ stream[i].outcome = FAIL /\ stream[i].target # 0
        /\ stream[i+1].cause = CausePrereq
        /\ stream[i+1].prereq = stream[i].id
        /\ stream[i+1].actual = FAIL
        /\ stream[i+2].cause = CausePrereq
        /\ stream[i+2].prereq = stream[i+1].id
        /\ stream[i+2].actual = UNTESTED
        /\ stream[i+2].expected = PASS
        /\ ~WasDispatched(stream[i+1].id)
        /\ ~WasDispatched(stream[i+2].id)

(***************************************************************************)
(* C36: when the dispatch loop is left and no termination was requested,   *)
(* pending and ready are empty and the statements behind the loop write no *)
(* result; and while no termination was requested no result with cause     *)
(* 'execution terminated' exists.                                          *)
(***************************************************************************)
LoopIsLeft == pc = "loop" /\ pc' = "stopping"

C36_NothingPendingAtLoopExit ==
    /\ [](~terminated =>
            /\ \A i \in DOMAIN stream : stream[i].cause # CauseTerminated
            /\ \A t \in Ids : test_results[t].cause # CauseTerminated)
    /\ [][ (LoopIsLeft /\ ~terminated) =>
             /\ pending = <<>> /\ ready = <<>>
             /\ pending' = <<>> /\ ready' = <<>>
             /\ stream' = stream /\ test_results' = test_results
         ]_vars

\* The loop was left without a termination request after tests were run
\* and a test was finalised by the engine.
C36_Witness ==
    /\ pc = "stopping"
    /\ ~terminated
    /\ ~BuildRaises
    /\ dispatched # <<>>
    /\ \E t \in Ids : test_results[t].cause \in {CauseCycle, CausePrereq}
    /\ \A t \in Ids : NumResults(t) = 1

(***************************************************************************)
(* C37 as claimed: in the result stream the result of a test comes before  *)
(* the result of every test that names it as a prerequisite.               *)
(***************************************************************************)
C37_PrerequisiteResultFirst ==
    \A i, j \in DOMAIN stream :
        ( /\ stream[i].kind = TEST /\ stream[j].kind = TEST
          /\ Requires(stream[i].id, stream[j].id) )
        => j < i

(***************************************************************************)
(* C37 as amended: the result of a test that was run comes after the       *)
(* results of all its prerequisites, and the result of a test finalised    *)
(* for a failed prerequisite comes after the result of the prerequisite    *)
(* it names.  (Its other prerequisites, and the prerequisites of a test    *)
(* discarded as a member of a dependency cycle, may get their results      *)
(* later.)                                                                 *)
(***************************************************************************)
C37_ResultAfterDecidingPrerequisites ==
    \A i \in DOMAIN stream :
        /\ (stream[i].kind = TEST /\ stream[i].target # 0) =>
              \A p \in DOMAIN prereqs[stream[i].id] :
                  \E j \in 1..(i - 1) :
                      /\ stream[j].kind = TEST /\ stream[j].id = p
                      /\ stream[j].outcome = prereqs[stream[i].id][p]
        /\ stream[i].cause = CausePrereq =>
              \E j \in 1..(i - 1) :
                  /\ stream[j].kind = TEST
                  /\ stream[j].id = stream[i].prereq
                  /\ stream[j].outcome = stream[i].actual

\* A test with two prerequisites was finalised when the first of them
\* failed, and the other prerequisite was run and got its result later; a
\* run is over and every test has its result.
C37_Witness ==
    /\ Done
    /\ \E i, j \in DOMAIN stream :
          /\ i < j
          /\ stream[i].cause = CausePrereq
          /\ Requires(stream[i].id, stream[j].id)
          /\ stream[j].target # 0
          /\ \E k \in 1..(i - 1) : stream[k].id = stream[i].prereq

(***************************************************************************)
(* C38: a step in which the engine takes a RESOURCE result from the        *)
(* response queue leaves pending, ready, the prerequisite counts and the   *)
(* dependents' edges and the test results as they were; it writes that one *)
(* result to the result streams and nothing else, and the idle list is     *)
(* unchanged or has the result's target appended.                          *)
(***************************************************************************)
ResourceResultProcessed ==
    /\ response_queue # <<>>
    /\ Head(response_queue).kind = RESOURCE
    /\ response_queue' = Tail(response_queue)

C38_ResourceResultLeavesGraph ==
    [][ ResourceResultProcessed =>
          /\ pending' = pending
          /\ ready' = ready
          /\ descriptor_graph' = descriptor_graph
          /\ test_results' = test_results
          /\ stream' = Append(stream, Head(response_queue))
          /\ stream2' = Append(stream2, Head(response_queue))
          /\ \/ idle_targets' = idle_targets
             \/ idle_targets' = Append(idle_targets, Head(response_queue).target)
          /\ dispatched' = dispatched
          /\ terminated' = terminated
      ]_vars

\* A resource result whose id is also the id of a test that has dependents
\* still waiting was processed while the run was going on.
C38_Witness ==
    /\ pc = "loop"
    /\ stream # <<>>
    /\ stream[Len(stream)].kind = RESOURCE
    /\ pending # <<>>
    /\ \E d \in Ids :
          /\ loads[d]
          /\ Requires(d, stream[Len(stream)].id)
          /\ descriptor_graph[d].count > 0
          /\ InSeq(d, pending)

(***************************************************************************)
(* C39: the thread of an rsh target puts a result on the response queue    *)
(* and calls NoteIdle afterwards; the engine may take the result in        *)
(* between.  Whenever the engine takes a result of an rsh target from the  *)
(* queue, IsIdle() of that target is true and the target is in the idle    *)
(* list when the step is over; and an rsh target is never missing from the *)
(* idle list.                                                              *)
(***************************************************************************)
RemoteResultProcessed(tg) ==
    /\ targets[tg].kind = "rsh"
    /\ response_queue # <<>>
    /\ Head(response_queue).target = tg
    /\ response_queue' = Tail(response_queue)

C39_IdleCheckNeverMissesRemote ==
    /\ [](\A tg \in Targets :
            targets[tg].kind = "rsh" => InSeq(tg, idle_targets))
    /\ [][ \A tg \in Targets :
             RemoteResultProcessed(tg) =>
                 /\ IsIdle(tg)
                 /\ \E i \in DOMAIN idle_targets' : idle_targets'[i] = tg
         ]_vars

\* The engine has processed the result of an rsh target while the target's
\* thread had not yet called NoteIdle for it.
C39_Witness ==
    \E tg \in Targets :
        /\ targets[tg].kind = "rsh"
        /\ rsh_pc[tg] = "recorded"
        /\ stream # <<>>
        /\ stream[Len(stream)].target = tg
        /\ \A i \in DOMAIN response_queue : response_queue[i].target # tg
        /\ pc = "loop"
        /\ InSeq(tg, idle_targets)

====
